---- MODULE Spec2Model ----
(***************************************************************************)
(* Snake Evolution (src/snake_evolution.py): the SnakeGame session, its    *)
(* snake board, its scoring and the key handling that drives them.         *)
(*                                                                         *)
(* The operations are the ones of class SnakeGame: handle_input (one       *)
(* KEYDOWN event per step), one iteration of run (a frame), and            *)
(* answer_question, which the class exposes to a caller that has set       *)
(* current_question.                                                       *)
(***************************************************************************)
EXTENDS Integers, Sequences, FiniteSets, TLC

(***************************************************************************)
(* Bounds of the model.  The grid of the program is 40 x 30 cells; the     *)
(* model keeps its shape on a grid small enough to enumerate.  The random  *)
(* draws of generate_math_question are scaled in the same way: operands    *)
(* 1 .. 20 to 1 .. MaxOperand, factors 2 .. 12 to 2 .. MaxFactor, bases    *)
(* 1 .. 20 to 1 .. MaxBase, the perfect squares 4 .. 100 to the squares of *)
(* 2 .. MaxRoot, and the offsets -10 .. 10 of the wrong options to         *)
(* -Spread .. Spread.  The operands of generate_math_problem are scaled to *)
(* 1 .. MaxTerm, with the minuend in MaxTerm .. 2 * MaxTerm; a typed       *)
(* answer holds at most MaxTyped characters, a mini-game is played up to   *)
(* MaxSolved solved problems or MaxArcadeFrames counted frames.  The       *)
(* player of the drifting sessions presses keys until the last move is    *)
(* SteerUntil milliseconds old.                                           *)
(***************************************************************************)
GRID_WIDTH == 4
GRID_HEIGHT == 3
MaxTime == 800
MaxAnswers == 2
MaxCorrect == 10
MaxWrong == 1
MaxRunTime == 1600
MaxSpeedCorrect == 5
MaxSpeedTime == 390
MaxKeysTime == 400
MaxDifficulty == 7
MaxOperand == 2
MaxFactor == 3
MaxBase == 2
MaxRoot == 3
Spread == 3
MaxTerm == 2
MaxTyped == 4
MaxSolved == 2
MaxArcadeFrames == 3
SteerUntil == 600

(***************************************************************************)
(* Program constants.                                                      *)
(***************************************************************************)
INITIAL_MOVE_DELAY == 200
MIN_MOVE_DELAY == 100
SPEED_STEP == 10
LEVEL_EVERY == 5
BASE_POINTS == 10
MAX_BONUS == 20
NUM_OPTIONS == 4
BASIC_UP_TO == 3
INTERMEDIATE_UP_TO == 6

\* current_question = NoQuestion
NoQuestion == [answer |-> 0 - 1, options |-> <<>>]

Direction == {"UP", "DOWN", "LEFT", "RIGHT"}

GameState == {"MENU", "PLAYING", "CATEGORY_SELECT", "EDUCATION_GAME_SELECT",
              "EDUCATION_GAME_PLAYING", "PYTHON_GAME_SELECT",
              "PYTHON_GAME_PLAYING", "GAME_OVER", "PAUSED"}

\* Direction.value: the unit step of a direction
Delta(d) ==
  CASE d = "UP" -> <<0, -1>>
    [] d = "DOWN" -> <<0, 1>>
    [] d = "LEFT" -> <<-1, 0>>
    [] d = "RIGHT" -> <<1, 0>>

\* a handle_input that compares the heading with the key's own direction
OppositeSame(d) == d

\* the direction handle_input compares the heading with before it accepts d
Opposite(d) ==
  CASE d = "UP" -> "DOWN"
    [] d = "DOWN" -> "UP"
    [] d = "LEFT" -> "RIGHT"
    [] d = "RIGHT" -> "LEFT"

Cells == (0 .. GRID_WIDTH - 1) \X (0 .. GRID_HEIGHT - 1)

Center == <<GRID_WIDTH \div 2, GRID_HEIGHT \div 2>>

\* the cells of a snake list
CellsOf(s) == {s[k] : k \in 1 .. Len(s)}

\* Question(question, answer, options, difficulty, subject): the fields
\* answer_question reads
Questions ==
  { [answer |-> 7, options |-> <<4, 7, 12, 9>>] }

\* the option indexes a caller passes to answer_question
OptionIndexes == (0 - NUM_OPTIONS - 1) .. NUM_OPTIONS

\* the milliseconds between the last move and a reading of
\* pygame.time.get_ticks() in update_snake
Elapsed == {100, 190, 200}

\* the games of the two selection screens, by the digit key that starts them
EducationGames == <<"math_wizard", "science_lab", "geography_quest",
                    "history_hunter", "word_master">>

PythonGames == <<"tic_tac_toe", "space_shooter", "car_racing",
                 "zombie_dash", "ball_run">>

\* the digit keys K_1 .. K_9, and the name each is recorded under
DigitKeys == 1 .. 9

DigitName == <<"1", "2", "3", "4", "5", "6", "7", "8", "9">>

VARIABLES state, snake, direction, next_direction, food_pos,
          current_question,
          score, level, questions_correct, questions_total, streak,
          best_streak, last_move_time, move_delay,
          language, selected_category, current_education_game,
          current_python_game,
          current_time, running, intent, last_key,
          selected_subject, selected_level, gen,
          edu, arcade, food_loop

boardVars == <<snake, direction, next_direction, food_pos>>
scoreVars == <<score, level, questions_correct, questions_total, streak,
               best_streak, move_delay>>
menuVars == <<language, selected_category, current_education_game,
              current_python_game>>
vars == <<state, snake, direction, next_direction, food_pos,
          current_question,
          score, level, questions_correct, questions_total, streak,
          best_streak, last_move_time, move_delay,
          language, selected_category, current_education_game,
          current_python_game,
          current_time, running, intent, last_key,
          selected_subject, selected_level, gen,
          edu, arcade, food_loop>>

\* the question generators: the attributes generate_question reads, and the
\* locals of the generator that is running or has returned
quizVars == <<selected_subject, selected_level, gen>>

\* the private state of the education games and of the python games, by game
miniVars == <<edu, arcade>>

(* food_loop is where a call of generate_food stands: "idle" before the *)
(* call, "drawing" inside its while loop, "returned" after its break    *)

----------------------------------------------------------------------------
(* a generate_food that accepts its first draw *)
GenerateFoodAnywhere(s) == Cells

(* a generate_food that only keeps the food off the head *)
GenerateFoodOffHead(s) == Cells \ {s[1]}

(* generate_food: the cells the retry loop can return for snake s *)
GenerateFood(s) == {c \in Cells : c \notin CellsOf(s)}

(* a grow_snake that appends two copies of the tail *)
GrowSnakeTwice(s) == Append(Append(s, s[Len(s)]), s[Len(s)])

(* a grow_snake that duplicates the head instead of the tail *)
GrowSnakeAtHead(s) == <<s[1]>> \o s

(* grow_snake: append a copy of the tail *)
GrowSnake(s) == Append(s, s[Len(s)])

(* a bonus without its cap *)
BonusUncapped(st) == st * 2

(* the streak bonus of a correct answer, from the streak after its increment *)
Bonus(st) == IF st * 2 < MAX_BONUS THEN st * 2 ELSE MAX_BONUS

(* a wrong answer that keeps the streak *)
StreakKept(is_correct, st) == IF is_correct THEN st + 1 ELSE st

(* streak += 1 on a correct answer, streak = 0 on a wrong one *)
StreakAfter(is_correct, st) == IF is_correct THEN st + 1 ELSE 0

(* a level-up test made before the count is incremented *)
LevelUpEarly(qc) == (qc + 1) % LEVEL_EVERY = 0

(* level up every 5 correct answers *)
LevelUp(qc) == qc % LEVEL_EVERY = 0

(* a speed-up without its floor *)
SpeedUpNoFloor(md) == md - SPEED_STEP

(* max(100, move_delay - 10) *)
SpeedUp(md) == IF md - SPEED_STEP > MIN_MOVE_DELAY THEN md - SPEED_STEP
               ELSE MIN_MOVE_DELAY

(* an answer_question that does not count the answer *)
TotalNotCounted(qt) == qt

(* questions_total += 1 *)
NextTotal(qt) == qt + 1

(* max(best_streak, streak) *)
Max(a, b) == IF a >= b THEN a ELSE b

(* options[option_index] as Python indexes a list: 0-based, and a negative *)
(* index counts from the end                                               *)
OptionAt(options, i) ==
  IF i >= 0 THEN options[i + 1] ELSE options[Len(options) + i + 1]

(* the guard of answer_question: no question, or an index past the end *)
AnswerIgnored(q, i) == q = NoQuestion \/ i >= Len(q.options)

(* is_correct *)
IsCorrect(q, i) == OptionAt(q.options, i) = q.answer

(* options[option_index] raises IndexError *)
AnswerRaises(q, i) == q # NoQuestion /\ i < 0 - Len(q.options)

(* a throttle that also holds the snake back when the delay has just elapsed *)
ThrottledInclusive(t) == t - last_move_time <= move_delay

(* the throttle of update_snake *)
Throttled(t) == t - last_move_time < move_delay

(* new_head = head + direction.value *)
NewHead(s, d) == <<s[1][1] + Delta(d)[1], s[1][2] + Delta(d)[2]>>

(* a wall test that forgets the left and top edges *)
WallCollisionNoLowerEdge(h) == h[1] >= GRID_WIDTH \/ h[2] >= GRID_HEIGHT

(* a wall test that lets the head pass the right and bottom edges by one *)
WallCollisionOffByOne(h) ==
  h[1] < 0 \/ h[1] > GRID_WIDTH \/ h[2] < 0 \/ h[2] > GRID_HEIGHT

(* the wall collision test of update_snake *)
WallCollision(h) ==
  h[1] < 0 \/ h[1] >= GRID_WIDTH \/ h[2] < 0 \/ h[2] >= GRID_HEIGHT

(* an update_snake without its self collision test *)
SelfCollisionNever(h, s) == FALSE

(* the self collision test of update_snake *)
SelfCollision(h, s) == h \in CellsOf(s)

(* an update_snake that never sees the food *)
AteFoodNever(h, food) == FALSE

(* the food collision test of update_snake *)
AteFood(h, food) == h = food

(* a move that keeps the tail on every tick *)
MovedSnakeNeverPops(s, h, food) == <<h>> \o s

(* a move that removes the tail on every tick *)
MovedSnakeAlwaysPops(s, h, food) == <<h>> \o SubSeq(s, 1, Len(s) - 1)

(* the snake after the move: insert(0, new_head), and pop() unless food *)
MovedSnake(s, h, food) ==
  IF AteFood(h, food) THEN <<h>> \o s ELSE <<h>> \o SubSeq(s, 1, Len(s) - 1)

----------------------------------------------------------------------------
(* The question generators.  gen holds the locals of the generator that  *)
(* is running: call is "idle" before any call, "options" inside the      *)
(* while loop of generate_math_question, "returned" when a Question has  *)
(* been returned and "raised" when the call ended in an exception.  The  *)
(* answer and the options of a Question are integers for math and        *)
(* strings for the text subjects; gen keeps the integers in answer and    *)
(* options and the strings in text_answer and text_options.  Before a     *)
(* call, and after a call that raised, there are no locals.               *)
NoCall == [call |-> "idle"]

\* the difficulties a caller passes
Difficulties == 1 .. MaxDifficulty

\* the difficulties on both sides of the borders of the three ranges
BorderDifficulties ==
  {BASIC_UP_TO, BASIC_UP_TO + 1, INTERMEDIATE_UP_TO}
    \cup (INTERMEDIATE_UP_TO + 1 .. MaxDifficulty)

\* the subjects of generate_question and generate_education_question
Subjects == {"math", "science", "geography", "history", "language"}

\* what a caller can store in selected_subject: a subject, or something else
SelectableSubjects == Subjects \cup {"art"}

\* the perfect squares of the square-root questions
PerfectSquares == {k * k : k \in 2 .. MaxRoot}

\* int(p ** 0.5) for a perfect square p
IntSqrt(p) == CHOOSE k \in 0 .. p : k * k = p

(* a subtraction that keeps the operands in the order drawn *)
OrderedAsDrawn(a, b) == <<a, b>>

(* if a < b: a, b = b, a *)
LargerFirst(a, b) == IF a < b THEN <<b, a>> ELSE <<a, b>>

(* the prompt f"{left} op {right} = ?"; "*" is the times sign, "/" the *)
(* division sign, "^2" the prompt f"{left}^2 = ?" and "sqrt" the prompt *)
(* of the square root of left                                           *)
Prompt(op, left, right) == [op |-> op, left |-> left, right |-> right]

(* the pairs <<question, answer>> that the draws of generate_math_question *)
(* give for a difficulty                                                   *)
MathDraws(d) ==
  IF d <= BASIC_UP_TO
  THEN {<<Prompt("+", a, b), a + b>> : a, b \in 1 .. MaxOperand}
       \cup {<<Prompt("-", LargerFirst(a, b)[1], LargerFirst(a, b)[2]),
               LargerFirst(a, b)[1] - LargerFirst(a, b)[2]>> :
                 a, b \in 1 .. MaxOperand}
  ELSE IF d <= INTERMEDIATE_UP_TO
  THEN {<<Prompt("*", a, b), a * b>> : a, b \in 2 .. MaxFactor}
       \cup {<<Prompt("/", a * b, b), a>> : a, b \in 2 .. MaxFactor}
  ELSE {<<Prompt("^2", n, 0), m * m>> : n, m \in 1 .. MaxBase}
       \cup {<<Prompt("sqrt", p, 0), IntSqrt(r)>> : p, r \in PerfectSquares}

(* a loop that appends a wrong option it already has *)
WrongAcceptedTwice(wrong, ans, opts) == wrong # ans /\ wrong >= 0

(* wrong != answer and wrong not in options and wrong >= 0 *)
WrongAccepted(wrong, ans, opts) ==
  wrong # ans /\ wrong \notin {opts[k] : k \in 1 .. Len(opts)} /\ wrong >= 0

\* the orders random.shuffle can leave a list of four in
Shuffles ==
  {p \in [1 .. NUM_OPTIONS -> 1 .. NUM_OPTIONS] :
     \A j, k \in 1 .. NUM_OPTIONS : j # k => p[j] # p[k]}

\* the question banks of the four text subjects: question, answer, options
Bank(subj) ==
  CASE subj = "science" ->
         { <<"What is H2O?", "Water",
             <<"Water", "Hydrogen", "Oxygen", "Salt">>>>,
           <<"How many planets are in our solar system?", "8",
             <<"8", "9", "7", "10">>>>,
           <<"What gas do plants absorb from the atmosphere?",
             "Carbon dioxide",
             <<"Carbon dioxide", "Oxygen", "Nitrogen", "Hydrogen">>>> }
    [] subj = "geography" ->
         { <<"What is the capital of France?", "Paris",
             <<"Paris", "London", "Berlin", "Madrid">>>>,
           <<"Which is the largest continent?", "Asia",
             <<"Asia", "Africa", "Europe", "America">>>>,
           <<"What is the longest river in the world?", "Nile",
             <<"Nile", "Amazon", "Ganges", "Mississippi">>>> }
    [] subj = "history" ->
         { <<"Who was the first President of the United States?",
             "George Washington",
             <<"George Washington", "Thomas Jefferson", "Abraham Lincoln",
               "John Adams">>>>,
           <<"In which year did World War II end?", "1945",
             <<"1945", "1944", "1946", "1943">>>>,
           <<"Which ancient wonder was located in Egypt?", "Great Pyramid",
             <<"Great Pyramid", "Hanging Gardens", "Colossus",
               "Lighthouse">>>> }
    [] subj = "language" ->
         { <<"What is the opposite of 'hot'?", "Cold",
             <<"Cold", "Warm", "Cool", "Mild">>>>,
           <<"Which word is a noun?", "Book",
             <<"Book", "Run", "Quick", "Slowly">>>>,
           <<"What is the plural of 'child'?", "Children",
             <<"Children", "Childs", "Childes", "Child">>>> }

----------------------------------------------------------------------------
(* The mini-games.  Text is a sequence of one-character strings. *)

\* the letters of the keys and answers, lower case and upper case
LowerCase == <<"a", "h", "i", "o", "s", "t">>

UpperCase == <<"A", "H", "I", "O", "S", "T">>

DigitChars == <<"0", "1", "2", "3", "4", "5", "6", "7", "8", "9">>

\* str.upper() of one character
Upper(c) ==
  IF \E k \in 1 .. Len(LowerCase) : LowerCase[k] = c
  THEN UpperCase[CHOOSE k \in 1 .. Len(LowerCase) : LowerCase[k] = c]
  ELSE c

\* str.upper() of a text
UpperAll(s) == [k \in 1 .. Len(s) |-> Upper(s[k])]

\* str.isdigit(), str.isalpha() and str.isalnum() of one character
IsDigit(c) == \E k \in 1 .. Len(DigitChars) : DigitChars[k] = c

IsAlpha(c) ==
  \E k \in 1 .. Len(LowerCase) : LowerCase[k] = c \/ UpperCase[k] = c

IsAlnum(c) == IsDigit(c) \/ IsAlpha(c)

\* the value of a digit
DigitValue(c) == (CHOOSE k \in 1 .. Len(DigitChars) : DigitChars[k] = c) - 1

\* the value of a text of digits
RECURSIVE NatOf(_)
NatOf(s) ==
  IF s = <<>> THEN 0
  ELSE 10 * NatOf(SubSeq(s, 1, Len(s) - 1)) + DigitValue(s[Len(s)])

\* the digits of a text after its sign, if it has one
Unsigned(s) == IF s # <<>> /\ s[1] = "-" THEN Tail(s) ELSE s

(* an int(text) that reads a text without digits as 0 and skips every *)
(* character that is not a digit                                      *)
ParsesAlways(s) == TRUE

(* int(text) returns for a text of digits and '-' exactly when the text is *)
(* one optional sign followed by at least one digit; otherwise it raises  *)
(* ValueError                                                             *)
Parses(s) ==
  /\ Unsigned(s) # <<>>
  /\ \A k \in 1 .. Len(Unsigned(s)) : IsDigit(Unsigned(s)[k])

\* the value int(text) returns
IntOf(s) ==
  LET digits == SelectSeq(Unsigned(s), IsDigit) IN
  IF s # <<>> /\ s[1] = "-" THEN 0 - NatOf(digits) ELSE NatOf(digits)

\* the dict of a problem that a generate_* method has just built
Fresh(question, answer, text_answer) ==
  [question |-> question, answer |-> answer, text_answer |-> text_answer,
   user_answer |-> <<>>, solved |-> FALSE]

\* current_problem = None
NoProblem == Fresh(Prompt("None", 0, 0), 0, <<>>)

\* generate_math_problem: the problems its draws give
MathProblems ==
  {Fresh(Prompt("+", a, b), a + b, <<>>) : a, b \in 1 .. MaxTerm}
    \cup {Fresh(Prompt("-", a, b), a - b, <<>>) :
            a \in MaxTerm .. 2 * MaxTerm, b \in 1 .. MaxTerm}
    \cup {Fresh(Prompt("*", a, b), a * b, <<>>) : a, b \in 1 .. MaxTerm}

\* the challenges of the four text games
Challenges(g) ==
  CASE g = "science_lab" ->
         { <<"What is the chemical formula for water?", <<"H", "2", "O">>>>,
           <<"How many planets are in our solar system?", <<"8">>>>,
           <<"What gas do plants absorb?", <<"C", "O", "2">>>>,
           <<"What is the speed of light (m/s)?",
             <<"2", "9", "9", "7", "9", "2", "4", "5", "8">>>>,
           <<"What is the largest organ in human body?",
             <<"S", "K", "I", "N">>>> }
    [] g = "geography_quest" ->
         { <<"What is the capital of France?", <<"P", "A", "R", "I", "S">>>>,
           <<"Which is the largest continent?", <<"A", "S", "I", "A">>>>,
           <<"What is the longest river?", <<"N", "I", "L", "E">>>>,
           <<"Which country has the most time zones?",
             <<"R", "U", "S", "S", "I", "A">>>>,
           <<"What is the smallest country?",
             <<"V", "A", "T", "I", "C", "A", "N">>>> }
    [] g = "history_hunter" ->
         { <<"Who was the first US President?",
             <<"W", "A", "S", "H", "I", "N", "G", "T", "O", "N">>>>,
           <<"In which year did WWII end?", <<"1", "9", "4", "5">>>>,
           <<"Who built the pyramids?",
             <<"E", "G", "Y", "P", "T", "I", "A", "N", "S">>>>,
           <<"When did the Berlin Wall fall?", <<"1", "9", "8", "9">>>>,
           <<"Who discovered America?",
             <<"C", "O", "L", "U", "M", "B", "U", "S">>>> }
    [] g = "word_master" ->
         { <<"Opposite of HOT:", <<"C", "O", "L", "D">>>>,
           <<"Past tense of GO:", <<"W", "E", "N", "T">>>>,
           <<"Plural of CHILD:",
             <<"C", "H", "I", "L", "D", "R", "E", "N">>>>,
           <<"Synonym of BIG:", <<"L", "A", "R", "G", "E">>>>,
           <<"What rhymes with CAT?", <<"H", "A", "T">>>> }

(* generate_math_problem, generate_science_experiment, ...: the problems *)
(* the generator of an education game can draw                           *)
FreshProblems(g) ==
  IF g = "math_wizard" THEN MathProblems
  ELSE {Fresh(Prompt(c[1], 0, 0), 0, c[2]) : c \in Challenges(g)}

(* edu and arcade map the games whose init_* has run to their private    *)
(* state; the attributes of the other games do not exist                 *)
NoGames == <<>>

\* the private state of game g, set to v
Built(games, g, v) ==
  [h \in DOMAIN games \cup {g} |-> IF h = g THEN v ELSE games[h]]

\* init_math_wizard, init_science_lab, ...: p is the problem drawn
InitEducation(p) == [score |-> 0, problem |-> p]

\* the event.unicode that the handler of an education game appends
AcceptsChar(g, c) ==
  CASE g = "math_wizard" -> IsDigit(c) \/ c = "-"
    [] g \in {"science_lab", "history_hunter"} -> IsAlnum(c)
    [] g \in {"geography_quest", "word_master"} -> IsAlpha(c)

\* what it appends: Math Wizard the character, the text games its upper case
Appended(g, c) == IF g = "math_wizard" THEN c ELSE Upper(c)

(* the comparison on K_RETURN: int(user_answer) == answer in Math Wizard, *)
(* where a ValueError counts as no match, and user_answer.upper() ==      *)
(* answer.upper() in the text games                                       *)
Matches(g, p) ==
  IF g = "math_wizard"
  THEN Parses(p.user_answer) /\ IntOf(p.user_answer) = p.answer
  ELSE UpperAll(p.user_answer) = UpperAll(p.text_answer)

\* the points of a solved problem
SOLVED_POINTS == 10

(* handlers that keep the solved problem and what was typed *)
EducationAfterKeyKeepsProblem(e, g, k, p) ==
  CASE k = "RETURN" ->
         IF e.problem.user_answer = <<>> THEN e
         ELSE IF Matches(g, e.problem)
         THEN [e EXCEPT !.score = @ + SOLVED_POINTS, !.problem.solved = TRUE]
         ELSE [e EXCEPT !.problem.user_answer = <<>>]
    [] k = "BACKSPACE" ->
         [e EXCEPT !.problem.user_answer =
                     SubSeq(@, 1, Len(@) - 1)]
    [] OTHER ->
         IF AcceptsChar(g, k)
         THEN [e EXCEPT !.problem.user_answer = Append(@, Appended(g, k))]
         ELSE e

(* handle_math_input, handle_science_input, ...: the private state of   *)
(* education game g after the key k, where p is the problem drawn if a  *)
(* new one is generated                                                 *)
EducationAfterKey(e, g, k, p) ==
  CASE k = "RETURN" ->
         IF e.problem.user_answer = <<>> THEN e
         ELSE IF Matches(g, e.problem)
         THEN [e EXCEPT !.score = @ + SOLVED_POINTS, !.problem = p]
         ELSE [e EXCEPT !.problem.user_answer = <<>>]
    [] k = "BACKSPACE" ->
         [e EXCEPT !.problem.user_answer =
                     SubSeq(@, 1, Len(@) - 1)]
    [] OTHER ->
         IF AcceptsChar(g, k)
         THEN [e EXCEPT !.problem.user_answer = Append(@, Appended(g, k))]
         ELSE e

\* ttt_board = [' ' for _ in range(9)]
BlankBoard == [k \in 1 .. 9 |-> " "]

(* an init_* that keeps the counters of the game as it was left *)
InitPythonKeepsScore(g) ==
  IF g \in DOMAIN arcade THEN arcade[g]
  ELSE [score |-> 0, health |-> IF g = "zombie_dash" THEN 100 ELSE 0,
        board |-> BlankBoard, player |-> "X", game_over |-> FALSE,
        winner |-> "None"]

(* init_tic_tac_toe, init_space_shooter, init_car_racing, init_zombie_dash *)
(* and init_ball_run: the board and the counters; the positions, bullets,  *)
(* enemies and obstacles of the arcade games are left out                  *)
InitPython(g) ==
  [score |-> 0,
   health |-> IF g = "zombie_dash" THEN 100 ELSE 0,
   board |-> BlankBoard, player |-> "X", game_over |-> FALSE,
   winner |-> "None"]

\* check_ttt_winner: the rows, columns and diagonals, counted from 1
TttLines ==
  { <<1, 2, 3>>, <<4, 5, 6>>, <<7, 8, 9>>, <<1, 4, 7>>, <<2, 5, 8>>,
    <<3, 6, 9>>, <<1, 5, 9>>, <<3, 5, 7>> }

\* a check_ttt_winner that looks at the rows and the columns only
CheckTttWinnerNoDiagonals(b) ==
  \E l \in TttLines \ {<<1, 5, 9>>, <<3, 5, 7>>} :
    b[l[1]] = b[l[2]] /\ b[l[2]] = b[l[3]] /\ b[l[3]] # " "

CheckTttWinner(b) ==
  \E l \in TttLines : b[l[1]] = b[l[2]] /\ b[l[2]] = b[l[3]] /\ b[l[3]] # " "

\* a handle_ttt_input that does not look whether the cell is empty
TttAfterDigitOverwrites(a, n) ==
  IF ~a.game_over
  THEN LET b == [a.board EXCEPT ![n] = a.player] IN
       IF \E l \in TttLines :
            b[l[1]] = b[l[2]] /\ b[l[2]] = b[l[3]] /\ b[l[3]] # " "
       THEN [a EXCEPT !.board = b, !.game_over = TRUE, !.winner = a.player]
       ELSE IF \A k \in 1 .. 9 : b[k] # " "
       THEN [a EXCEPT !.board = b, !.game_over = TRUE, !.winner = "Tie"]
       ELSE [a EXCEPT !.board = b,
                      !.player = IF a.player = "X" THEN "O" ELSE "X"]
  ELSE a

\* handle_ttt_input, K_1 .. K_9: pos = event.key - K_1
TttAfterDigit(a, n) ==
  IF a.board[n] = " " /\ ~a.game_over
  THEN LET b == [a.board EXCEPT ![n] = a.player] IN
       IF CheckTttWinner(b)
       THEN [a EXCEPT !.board = b, !.game_over = TRUE, !.winner = a.player]
       ELSE IF \A k \in 1 .. 9 : b[k] # " "
       THEN [a EXCEPT !.board = b, !.game_over = TRUE, !.winner = "Tie"]
       ELSE [a EXCEPT !.board = b,
                      !.player = IF a.player = "X" THEN "O" ELSE "X"]
  ELSE a

(* update_space_shooter, update_car_racing, update_zombie_dash and      *)
(* update_ball_run, as far as the counters go: hits is the number of    *)
(* enemies shot, obstacles passed or zombies that reached the player in *)
(* this frame; tic-tac-toe has no update                                *)
PythonAfterFrame(a, g, hits) ==
  CASE g = "space_shooter" -> [a EXCEPT !.score = @ + 10 * hits]
    [] g = "car_racing" -> [a EXCEPT !.score = @ + hits]
    [] g = "zombie_dash" -> [a EXCEPT !.score = @ + 1, !.health = @ - hits]
    [] g = "ball_run" -> [a EXCEPT !.score = @ + 1]
    [] OTHER -> a

----------------------------------------------------------------------------
(* SnakeGame.__init__ *)
Init ==
  /\ state = "MENU"
  /\ snake = <<Center>>
  /\ direction = "RIGHT"
  /\ next_direction = "RIGHT"
  /\ food_pos \in GenerateFood(<<Center>>)
  /\ current_question = NoQuestion
  /\ score = 0
  /\ level = 1
  /\ questions_correct = 0
  /\ questions_total = 0
  /\ streak = 0
  /\ best_streak = 0
  /\ last_move_time = 0
  /\ move_delay = INITIAL_MOVE_DELAY
  /\ language = "english"
  /\ selected_category = "None"
  /\ current_education_game = "None"
  /\ current_python_game = "None"
  /\ current_time = 0
  /\ running = TRUE
  /\ intent = "NONE"
  /\ last_key = "NONE"
  /\ selected_subject = "UNSET"
  /\ selected_level = 0
  /\ gen = NoCall
  /\ edu = NoGames
  /\ arcade = NoGames
  /\ food_loop = "idle"

(* a start_game that carries the streak over into the new round *)
StartGameKeepsStreak ==
  /\ state' = "PLAYING"
  /\ snake' = <<Center>>
  /\ direction' = "RIGHT"
  /\ next_direction' = "RIGHT"
  /\ score' = 0
  /\ level' = 1
  /\ questions_correct' = 0
  /\ questions_total' = 0
  /\ selected_category' = "None"
  /\ current_education_game' = "None"
  /\ current_python_game' = "None"
  /\ food_pos' \in GenerateFood(snake')
  /\ UNCHANGED <<current_question, streak, best_streak,
                 last_move_time, move_delay, language>>

(* start_game *)
StartGame ==
  /\ state' = "PLAYING"
  /\ snake' = <<Center>>
  /\ direction' = "RIGHT"
  /\ next_direction' = "RIGHT"
  /\ score' = 0
  /\ level' = 1
  /\ questions_correct' = 0
  /\ questions_total' = 0
  /\ streak' = 0
  /\ selected_category' = "None"
  /\ current_education_game' = "None"
  /\ current_python_game' = "None"
  /\ food_pos' \in GenerateFood(snake')
  /\ UNCHANGED <<current_question, best_streak,
                 last_move_time, move_delay, language>>

(* restart_game *)
RestartGame == StartGame

(* handle_input, KEYDOWN K_SPACE *)
KeySpace ==
  /\ UNCHANGED current_time
  /\ IF state = "MENU" THEN StartGame
     ELSE UNCHANGED <<state, boardVars, scoreVars, current_question,
                      last_move_time, menuVars>>

(* a handle_input that compares the key with the pending direction *)
KeyDirectionAgainstPending(d) ==
  /\ UNCHANGED <<current_time, state, snake, direction, food_pos, scoreVars,
                 current_question, last_move_time, menuVars>>
  /\ IF state = "PLAYING" /\ next_direction # Opposite(d)
     THEN next_direction' = d
     ELSE UNCHANGED next_direction

(* a handle_input that takes the direction keys while the game is paused *)
KeyDirectionWhilePaused(d) ==
  /\ UNCHANGED <<current_time, state, snake, direction, food_pos, scoreVars,
                 current_question, last_move_time, menuVars>>
  /\ IF state \in {"PLAYING", "PAUSED"} /\ direction # Opposite(d)
     THEN next_direction' = d
     ELSE UNCHANGED next_direction

(* handle_input, KEYDOWN K_UP / K_DOWN / K_LEFT / K_RIGHT *)
KeyDirection(d) ==
  /\ UNCHANGED <<current_time, state, snake, direction, food_pos, scoreVars,
                 current_question, last_move_time, menuVars>>
  /\ IF state = "PLAYING" /\ direction # Opposite(d)
     THEN next_direction' = d
     ELSE UNCHANGED next_direction

(* a handle_input whose K_p pauses from every mode *)
KeyPAnywhere ==
  /\ UNCHANGED <<current_time, boardVars, scoreVars, current_question,
                 last_move_time, menuVars>>
  /\ state' = IF state = "PAUSED" THEN "PLAYING" ELSE "PAUSED"

(* handle_input, KEYDOWN K_p *)
KeyP ==
  /\ UNCHANGED <<current_time, boardVars, scoreVars, current_question,
                 last_move_time, menuVars>>
  /\ state' = CASE state = "PLAYING" -> "PAUSED"
                [] state = "PAUSED" -> "PLAYING"
                [] OTHER -> state

(* a handle_input whose K_r restarts from every mode *)
KeyRAnywhere ==
  /\ UNCHANGED current_time
  /\ RestartGame

(* handle_input, KEYDOWN K_r *)
KeyR ==
  /\ UNCHANGED current_time
  /\ IF state = "GAME_OVER" THEN RestartGame
     ELSE UNCHANGED <<state, boardVars, scoreVars, current_question,
                      last_move_time, menuVars>>

(* update_snake, reading current_time from pygame.time.get_ticks() *)
UpdateSnake(t) ==
  IF Throttled(t)
  THEN UNCHANGED <<state, boardVars, last_move_time>>
  ELSE
    LET new_head == NewHead(snake, direction') IN
    /\ last_move_time' = t
    /\ direction' = next_direction
    /\ UNCHANGED <<next_direction, food_pos>>
    /\ IF WallCollision(new_head) \/ SelfCollision(new_head, snake)
       THEN /\ state' = "GAME_OVER"
            /\ UNCHANGED snake
       ELSE /\ snake' = MovedSnake(snake, new_head, food_pos)
            /\ state' = IF AteFood(new_head, food_pos) THEN "CATEGORY_SELECT"
                        ELSE state

(* a run loop that also updates the board while the game is paused *)
BoardTicksPaused(st) == st \in {"PLAYING", "PAUSED"}

(* the branch of run that calls update_snake *)
BoardTicks(st) == st = "PLAYING"

(* one iteration of run after its handle_input: the board is updated only *)
(* in PLAYING; t is the clock reading of this frame                       *)
Frame(t) ==
  /\ current_time' = t
  /\ UNCHANGED <<scoreVars, current_question, menuVars>>
  /\ IF BoardTicks(state) THEN UpdateSnake(t)
     ELSE UNCHANGED <<state, boardVars, last_move_time>>

(* handle_input, KEYDOWN K_l *)
KeyL ==
  /\ UNCHANGED <<current_time, state, boardVars, scoreVars, current_question,
                 last_move_time, selected_category, current_education_game,
                 current_python_game>>
  /\ language' = IF state = "MENU"
                 THEN (IF language = "english" THEN "tamil" ELSE "english")
                 ELSE language

(* start_education_game: the mode it sets; init_* sets up the mini-game *)
StartEducationGame == state' = "EDUCATION_GAME_PLAYING"

(* start_python_game: the mode it sets; init_* sets up the mini-game *)
StartPythonGame == state' = "PYTHON_GAME_PLAYING"

(* handle_input, KEYDOWN K_1 .. K_9; in the two mini-game modes the key *)
(* goes to the handler of the mini-game                                 *)
KeyDigit(n) ==
  /\ UNCHANGED <<current_time, boardVars, scoreVars, current_question,
                 last_move_time, language>>
  /\ CASE state = "CATEGORY_SELECT" /\ n = 1 ->
             /\ selected_category' = "education"
             /\ state' = "EDUCATION_GAME_SELECT"
             /\ UNCHANGED <<current_education_game, current_python_game>>
       [] state = "CATEGORY_SELECT" /\ n = 2 ->
             /\ selected_category' = "python"
             /\ state' = "PYTHON_GAME_SELECT"
             /\ UNCHANGED <<current_education_game, current_python_game>>
       [] state = "EDUCATION_GAME_SELECT" /\ n <= Len(EducationGames) ->
             /\ current_education_game' = EducationGames[n]
             /\ StartEducationGame
             /\ UNCHANGED <<selected_category, current_python_game>>
       [] state = "PYTHON_GAME_SELECT" /\ n <= Len(PythonGames) ->
             /\ current_python_game' = PythonGames[n]
             /\ StartPythonGame
             /\ UNCHANGED <<selected_category, current_education_game>>
       [] OTHER ->
             UNCHANGED <<state, selected_category, current_education_game,
                         current_python_game>>

(* a handle_input whose K_b goes back to the board from a selection screen *)
KeyBResumes ==
  /\ UNCHANGED <<current_time, boardVars, scoreVars, current_question,
                 last_move_time, menuVars>>
  /\ state' = IF state \in {"EDUCATION_GAME_SELECT", "PYTHON_GAME_SELECT"}
              THEN "PLAYING" ELSE state

(* handle_input, KEYDOWN K_b *)
KeyB ==
  /\ UNCHANGED <<current_time, boardVars, scoreVars, current_question,
                 last_move_time, menuVars>>
  /\ state' = IF state \in {"EDUCATION_GAME_SELECT", "PYTHON_GAME_SELECT"}
              THEN "CATEGORY_SELECT" ELSE state

(* a handle_input whose K_ESCAPE takes the player of a mini-game back to   *)
(* the board with the reward of a correct answer                          *)
KeyEscapeRewards ==
  /\ UNCHANGED <<current_time, direction, next_direction, current_question,
                 last_move_time, menuVars, level, questions_correct,
                 questions_total, streak, best_streak, move_delay>>
  /\ IF state \in {"EDUCATION_GAME_PLAYING", "PYTHON_GAME_PLAYING"}
     THEN /\ state' = "PLAYING"
          /\ score' = score + BASE_POINTS
          /\ snake' = Append(snake, snake[Len(snake)])
          /\ food_pos' \in {c \in Cells : c \notin CellsOf(snake)}
     ELSE UNCHANGED <<state, score, snake, food_pos>>

(* a handle_input whose K_ESCAPE also restarts the round of the snake *)
KeyEscapeRestarts ==
  /\ UNCHANGED current_time
  /\ IF state \in {"EDUCATION_GAME_PLAYING", "PYTHON_GAME_PLAYING"}
     THEN RestartGame
     ELSE UNCHANGED <<state, boardVars, scoreVars, current_question,
                      last_move_time, menuVars>>

(* handle_input, KEYDOWN K_ESCAPE: the common control at the end of *)
(* handle_education_game_input and handle_python_game_input         *)
KeyEscape ==
  /\ UNCHANGED <<current_time, boardVars, scoreVars, current_question,
                 last_move_time, menuVars>>
  /\ state' = CASE state = "EDUCATION_GAME_PLAYING" -> "EDUCATION_GAME_SELECT"
                [] state = "PYTHON_GAME_PLAYING" -> "PYTHON_GAME_SELECT"
                [] OTHER -> state

(* handle_input returns False on a pygame.QUIT event: run drops the rest *)
(* of the event queue, finishes this iteration and leaves its loop       *)
WindowClose(t) ==
  /\ running' = FALSE
  /\ Frame(t)

(* handle_input, KEYDOWN K_q: in GAME_OVER it returns False *)
KeyQ(t) ==
  IF state = "GAME_OVER" THEN WindowClose(t)
  ELSE UNCHANGED <<running, current_time, state, boardVars, scoreVars,
                   current_question, last_move_time, menuVars>>

(* the caller sets current_question before it calls answer_question *)
PoseQuestion(q) ==
  /\ current_question' = q
  /\ UNCHANGED <<current_time, state, boardVars, scoreVars, last_move_time,
                 menuVars>>

(* answer_question(option_index) *)
AnswerQuestion(i) ==
  /\ UNCHANGED <<current_time, direction, next_direction, last_move_time,
                 menuVars>>
  /\ IF AnswerIgnored(current_question, i)
        \/ AnswerRaises(current_question, i)
     THEN UNCHANGED <<state, snake, food_pos, scoreVars, current_question>>
     ELSE
       LET is_correct == IsCorrect(current_question, i) IN
       /\ questions_total' = NextTotal(questions_total)
       /\ current_question' = NoQuestion
       /\ IF is_correct
          THEN /\ questions_correct' = questions_correct + 1
               /\ streak' = StreakAfter(TRUE, streak)
               /\ best_streak' = Max(best_streak, streak')
               /\ score' = score + BASE_POINTS + Bonus(streak')
               /\ snake' = GrowSnake(snake)
               /\ food_pos' \in GenerateFood(snake')
               /\ state' = "PLAYING"
               /\ IF LevelUp(questions_correct')
                  THEN /\ level' = level + 1
                       /\ move_delay' = SpeedUp(move_delay)
                  ELSE UNCHANGED <<level, move_delay>>
          ELSE /\ streak' = StreakAfter(FALSE, streak)
               /\ UNCHANGED <<state, snake, food_pos, score, level,
                              questions_correct, best_streak, move_delay>>

----------------------------------------------------------------------------
(* The direction key of the last KEYDOWN event that handle_input handled   *)
(* in PLAYING since the last move; it is recorded in the runs of SpecRun. *)
RecordIntent(d) == intent' = IF state = "PLAYING" THEN d ELSE intent

ForgetIntentOnMove ==
  intent' = IF last_move_time' # last_move_time THEN "NONE" ELSE intent

(* a step outside the runs that record keys and end the loop *)
NotRecorded == UNCHANGED <<intent, last_key, running, quizVars, miniVars, food_loop>>

(* the session driven through every operation: keys, frames, and a caller *)
(* of answer_question                                                     *)
Next ==
  \/ KeySpace /\ NotRecorded
  \/ \E d \in Direction : KeyDirection(d) /\ NotRecorded
  \/ KeyP /\ NotRecorded
  \/ KeyR /\ NotRecorded
  \/ \E e \in Elapsed :
       /\ last_move_time + e <= MaxTime
       /\ Frame(last_move_time + e)
       /\ NotRecorded
  \/ \E q \in Questions : PoseQuestion(q) /\ NotRecorded
  \/ \E i \in OptionIndexes :
       /\ questions_total < MaxAnswers
       /\ AnswerQuestion(i)
       /\ NotRecorded

Spec == Init /\ [][Next]_vars

(* the rounds of the snake as main runs them: the board keys of           *)
(* handle_input and the frames of run                                     *)
NextRun ==
  \/ KeySpace /\ NotRecorded
  \/ \E d \in Direction :
       /\ KeyDirection(d)
       /\ RecordIntent(d)
       /\ UNCHANGED <<last_key, running, quizVars, miniVars, food_loop>>
  \/ KeyP /\ NotRecorded
  \/ KeyR /\ NotRecorded
  \/ \E e \in Elapsed :
       /\ last_move_time + e <= MaxRunTime
       /\ Frame(last_move_time + e)
       /\ ForgetIntentOnMove
       /\ UNCHANGED <<last_key, running, quizVars, miniVars, food_loop>>

SpecRun == Init /\ [][NextRun]_vars

(* the answers of a round that the scoring model admits *)
AnswerWithinBounds(i, max_correct, max_wrong) ==
  IF AnswerIgnored(current_question, i) \/ AnswerRaises(current_question, i)
  THEN TRUE
  ELSE IF IsCorrect(current_question, i)
       THEN questions_correct < max_correct
       ELSE questions_total - questions_correct < max_wrong

(* restart_game called by the driver of the session *)
CallRestartGame ==
  /\ UNCHANGED current_time
  /\ RestartGame

(* a driver that poses questions, passes the answers on and restarts *)
NextScore ==
  \/ KeySpace /\ NotRecorded
  \/ CallRestartGame /\ NotRecorded
  \/ \E q \in Questions : PoseQuestion(q) /\ NotRecorded
  \/ \E i \in OptionIndexes :
       /\ AnswerWithinBounds(i, MaxCorrect, MaxWrong)
       /\ AnswerQuestion(i)
       /\ NotRecorded

SpecScore == Init /\ [][NextScore]_vars

(* a short session in which enough questions are answered for the snake *)
(* to speed up                                                          *)
NextSpeed ==
  \/ KeySpace /\ NotRecorded
  \/ \E d \in Direction : KeyDirection(d) /\ NotRecorded
  \/ KeyP /\ NotRecorded
  \/ KeyR /\ NotRecorded
  \/ \E e \in Elapsed :
       /\ last_move_time + e <= MaxSpeedTime
       /\ Frame(last_move_time + e)
       /\ NotRecorded
  \/ \E q \in Questions : PoseQuestion(q) /\ NotRecorded
  \/ \E i \in OptionIndexes :
       /\ AnswerWithinBounds(i, MaxSpeedCorrect, MaxWrong)
       /\ AnswerQuestion(i)
       /\ NotRecorded

SpecSpeed == Init /\ [][NextSpeed]_vars

(* the fields of the session that the question generators leave alone *)
playVars ==
  <<state, boardVars, scoreVars, current_question, last_move_time, menuVars,
    current_time, miniVars, food_loop>>

(* generate_math_question(difficulty), up to its while loop: the draws of *)
(* the question and the answer, and options = [answer]                    *)
GenerateMathQuestion(d) ==
  /\ gen.call # "options"
  /\ \E qa \in MathDraws(d) :
       gen' = [call |-> "options", subject |-> "math", difficulty |-> d,
               question |-> qa[1], answer |-> qa[2], options |-> <<qa[2]>>,
               text_answer |-> "", text_options |-> <<>>]
  /\ UNCHANGED <<playVars, selected_subject, selected_level>>

(* one iteration of the while loop: wrong = answer + random.randint(-10, 10) *)
AppendWrong(w) ==
  /\ gen.call = "options"
  /\ Len(gen.options) < NUM_OPTIONS
  /\ LET wrong == gen.answer + w IN
       gen' = IF WrongAccepted(wrong, gen.answer, gen.options)
              THEN [gen EXCEPT !.options = Append(@, wrong)]
              ELSE gen
  /\ UNCHANGED <<playVars, selected_subject, selected_level>>

(* the end of generate_math_question: random.shuffle(options), and the *)
(* Question is returned                                                *)
ShuffleOptions(p) ==
  /\ gen.call = "options"
  /\ Len(gen.options) = NUM_OPTIONS
  /\ gen' = [gen EXCEPT !.call = "returned",
                        !.options = [k \in 1 .. NUM_OPTIONS |-> @[p[k]]]]
  /\ UNCHANGED <<playVars, selected_subject, selected_level>>

(* generate_science_question, generate_geography_question,           *)
(* generate_history_question, generate_language_question: one of the *)
(* questions of the bank is returned as it is written                *)
GenerateBankQuestion(subj, d) ==
  /\ gen.call # "options"
  /\ \E q \in Bank(subj) :
       gen' = [call |-> "returned", subject |-> subj, difficulty |-> d,
               question |-> Prompt(q[1], 0, 0), answer |-> 0,
               options |-> <<>>, text_answer |-> q[2],
               text_options |-> q[3]]
  /\ UNCHANGED <<playVars, selected_subject, selected_level>>

(* the if / elif chain of both dispatchers: math is also the else branch *)
(* of generate_question                                                  *)
GenerateFor(subj, d) ==
  IF subj \in {"science", "geography", "history", "language"}
  THEN GenerateBankQuestion(subj, d)
  ELSE GenerateMathQuestion(d)

(* generate_education_question(difficulty): subject = random.choice *)
GenerateEducationQuestion(d) == \E subj \in Subjects : GenerateFor(subj, d)

(* generate_question: it reads self.selected_subject and                *)
(* self.selected_level, attributes that no method of the class assigns; *)
(* reading an attribute that does not exist raises AttributeError       *)
GenerateQuestion ==
  IF selected_subject = "UNSET"
  THEN /\ gen.call # "options"
       /\ gen' = [call |-> "raised"]
       /\ UNCHANGED <<playVars, selected_subject, selected_level>>
  ELSE GenerateFor(selected_subject, selected_level)

(* a caller assigns the two attributes that generate_question reads *)
SelectSubject(subj, l) ==
  /\ selected_subject' = subj
  /\ selected_level' = l
  /\ UNCHANGED <<playVars, gen>>

(* a caller of the question generators: it calls generate_math_question *)
(* and generate_education_question on the game as constructed and       *)
(* generate_question at any time, and it can select a subject before    *)
(* its first call                                                       *)
NextQuiz ==
  \/ \E d \in Difficulties :
       /\ selected_subject = "UNSET"
       /\ GenerateMathQuestion(d)
       /\ UNCHANGED <<intent, last_key, running>>
  \/ \E d \in Difficulties :
       /\ selected_subject = "UNSET"
       /\ GenerateEducationQuestion(d)
       /\ UNCHANGED <<intent, last_key, running>>
  \/ \E w \in (0 - Spread) .. Spread :
       AppendWrong(w) /\ UNCHANGED <<intent, last_key, running>>
  \/ \E p \in Shuffles :
       ShuffleOptions(p) /\ UNCHANGED <<intent, last_key, running>>
  \/ GenerateQuestion /\ UNCHANGED <<intent, last_key, running>>
  \/ \E subj \in SelectableSubjects, l \in Difficulties :
       /\ selected_subject = "UNSET"
       /\ gen.call = "idle"
       /\ SelectSubject(subj, l)
       /\ UNCHANGED <<intent, last_key, running>>

(* the question generators read nothing of the board: one of the games *)
(* that __init__ can construct stands for all                          *)
InitQuiz == Init /\ food_pos = <<0, 0>>

SpecQuiz == InitQuiz /\ [][NextQuiz]_vars

(* a caller that calls generate_math_question once *)
NextMath ==
  \/ \E d \in BorderDifficulties :
       /\ gen.call = "idle"
       /\ GenerateMathQuestion(d)
       /\ UNCHANGED <<intent, last_key, running>>
  \/ \E w \in (0 - Spread) .. Spread :
       AppendWrong(w) /\ UNCHANGED <<intent, last_key, running>>
  \/ \E p \in Shuffles :
       ShuffleOptions(p) /\ UNCHANGED <<intent, last_key, running>>

(* that caller with fair random draws: the loop is not starved of a draw *)
(* it accepts, and a call that has filled its options returns            *)
SpecMathFair ==
  /\ InitQuiz
  /\ [][NextMath]_vars
  /\ WF_vars(\E w \in (0 - Spread) .. Spread :
               AppendWrong(w) /\ UNCHANGED <<intent, last_key, running>>)
  /\ WF_vars(\E p \in Shuffles :
               ShuffleOptions(p) /\ UNCHANGED <<intent, last_key, running>>)

(* the key of a KEYDOWN event that handle_input handled; it is recorded *)
(* in the runs of SpecKeys                                              *)
Pressed(k) ==
  /\ running
  /\ last_key' = k
  /\ UNCHANGED <<intent, quizVars, miniVars, food_loop>>

(* the program as main runs it, for a short session: every key of *)
(* handle_input, the frames of run, and the end of the loop       *)
NextKeys ==
  \/ KeySpace /\ Pressed("SPACE") /\ UNCHANGED running
  \/ KeyL /\ Pressed("L") /\ UNCHANGED running
  \/ \E d \in Direction : KeyDirection(d) /\ Pressed(d) /\ UNCHANGED running
  \/ KeyP /\ Pressed("P") /\ UNCHANGED running
  \/ KeyR /\ Pressed("R") /\ UNCHANGED running
  \/ \E n \in DigitKeys :
       KeyDigit(n) /\ Pressed(DigitName[n]) /\ UNCHANGED running
  \/ KeyB /\ Pressed("B") /\ UNCHANGED running
  \/ KeyEscape /\ Pressed("ESCAPE") /\ UNCHANGED running
  \/ \E e \in Elapsed : KeyQ(last_move_time + e) /\ Pressed("Q")
  \/ \E e \in Elapsed :
       /\ running
       /\ last_move_time + e <= MaxKeysTime
       /\ Frame(last_move_time + e)
       /\ NotRecorded
  \/ \E e \in Elapsed :
       /\ running
       /\ last_move_time + e <= MaxKeysTime
       /\ WindowClose(last_move_time + e)
       /\ UNCHANGED <<intent, last_key, quizVars, miniVars, food_loop>>

SpecKeys == Init /\ [][NextKeys]_vars

----------------------------------------------------------------------------
(* The mini-games in the loop of run. *)

\* the names of the games of a menu
Names(menu) == {menu[k] : k \in 1 .. Len(menu)}

(* handle_input, KEYDOWN of a key that no branch of a mode compares with: *)
(* K_RETURN, K_BACKSPACE, K_MINUS and the letters of CharKeys             *)
KeyUnbound ==
  UNCHANGED <<current_time, state, boardVars, scoreVars, current_question,
              last_move_time, menuVars>>

(* the dispatch of handle_education_game_input to the handler of the *)
(* current game; p is the problem drawn if the handler generates one *)
EducationGameInput(k, p) ==
  edu' = [edu EXCEPT ![current_education_game] =
            EducationAfterKey(@, current_education_game, k, p)]

(* a key that only the handler of an education game takes *)
KeyOfEducationGame(k, p) ==
  /\ KeyUnbound
  /\ UNCHANGED arcade
  /\ IF state = "EDUCATION_GAME_PLAYING" THEN EducationGameInput(k, p)
     ELSE UNCHANGED edu

(* K_1 .. K_9 in the mini-games: on a selection screen start_education_game *)
(* or start_python_game runs the init_* of the game chosen, in an          *)
(* education game the digit goes to its handler, in tic-tac-toe it is a    *)
(* move                                                                    *)
MiniAfterDigit(n, p) ==
  CASE state = "EDUCATION_GAME_SELECT" /\ n <= Len(EducationGames) ->
         /\ edu' = Built(edu, EducationGames[n], InitEducation(p))
         /\ UNCHANGED arcade
    [] state = "PYTHON_GAME_SELECT" /\ n <= Len(PythonGames) ->
         /\ arcade' = Built(arcade, PythonGames[n], InitPython(PythonGames[n]))
         /\ UNCHANGED edu
    [] state = "EDUCATION_GAME_PLAYING" ->
         /\ EducationGameInput(DigitName[n], p)
         /\ UNCHANGED arcade
    [] state = "PYTHON_GAME_PLAYING" /\ current_python_game = "tic_tac_toe" ->
         /\ arcade' = [arcade EXCEPT !["tic_tac_toe"] = TttAfterDigit(@, n)]
         /\ UNCHANGED edu
    [] OTHER -> UNCHANGED miniVars

(* K_r in the mini-games: handle_ttt_input starts a new board when the *)
(* game is over                                                        *)
MiniAfterR ==
  /\ UNCHANGED edu
  /\ IF /\ state = "PYTHON_GAME_PLAYING"
        /\ current_python_game = "tic_tac_toe"
        /\ arcade["tic_tac_toe"].game_over
     THEN arcade' = [arcade EXCEPT !["tic_tac_toe"] = InitPython("tic_tac_toe")]
     ELSE UNCHANGED arcade

(* the branch of run for PYTHON_GAME_PLAYING: update_python_games;     *)
(* update_education_games does nothing                                 *)
MiniAfterFrame(hits) ==
  /\ UNCHANGED edu
  /\ IF state = "PYTHON_GAME_PLAYING"
     THEN arcade' = [arcade EXCEPT ![current_python_game] =
                       PythonAfterFrame(@, current_python_game, hits)]
     ELSE UNCHANGED arcade

\* the keys that the player of these sessions types in an education game
KeyChars(g) ==
  CASE g = "math_wizard" -> {"1", "2", "-", "a"}
    [] g = "science_lab" -> {"h", "2", "o", "-"}
    [] g = "geography_quest" -> {"a", "s", "i", "1"}
    [] g = "history_hunter" -> {"1", "9", "8", "-"}
    [] g = "word_master" -> {"h", "a", "T", "2"}
    [] OTHER -> {}

\* the letter keys and K_MINUS among them
CharKeys == {"-", "a", "h", "i", "o", "s", "T"}

\* the problems a key can make the current education game draw
Drawable(g) ==
  IF g \in Names(EducationGames) THEN FreshProblems(g) ELSE {NoProblem}

\* the player may type c now: it is one of their keys and the text is short
MayType(c) ==
  state = "EDUCATION_GAME_PLAYING" =>
    /\ c \in KeyChars(current_education_game)
    /\ Len(edu[current_education_game].problem.user_answer) < MaxTyped

\* no mini-game other than g has been started in this session
OnlyGame(g) ==
  /\ DOMAIN edu \subseteq {g}
  /\ DOMAIN arcade \subseteq {g}

\* the frames of these sessions come 200 ms apart
MiniElapsed == {200}

\* the food of these sessions is drawn one cell ahead of the new snake
FoodAhead == <<Center[1] + 1, Center[2]>>

(* the sessions of a player who eats the first food and then keeps to one *)
(* mini-game, which they may leave and choose again                       *)
NextMini ==
  \/ KeySpace /\ food_pos' = FoodAhead /\ NotRecorded
  \/ \E e \in MiniElapsed, hits \in 0 .. 1 :
       /\ state = "PYTHON_GAME_PLAYING" =>
            arcade[current_python_game].score
              < MaxArcadeFrames * (IF current_python_game = "space_shooter"
                                   THEN 10 ELSE 1)
       /\ Frame(last_move_time + e)
       /\ MiniAfterFrame(hits)
       /\ UNCHANGED <<intent, last_key, running, quizVars, food_loop>>
  \/ \E n \in DigitKeys :
       \E p \in Drawable(IF state = "EDUCATION_GAME_SELECT"
                            /\ n <= Len(EducationGames)
                         THEN EducationGames[n] ELSE "None") :
         /\ state = "EDUCATION_GAME_SELECT" /\ n <= Len(EducationGames) =>
              OnlyGame(EducationGames[n])
         /\ state = "PYTHON_GAME_SELECT" /\ n <= Len(PythonGames) =>
              OnlyGame(PythonGames[n])
         /\ MayType(DigitName[n])
         /\ KeyDigit(n)
         /\ MiniAfterDigit(n, p)
         /\ UNCHANGED <<intent, last_key, running, quizVars, food_loop>>
  \/ \E c \in CharKeys :
       /\ state = "EDUCATION_GAME_PLAYING"
       /\ MayType(c)
       /\ KeyOfEducationGame(c, NoProblem)
       /\ UNCHANGED <<intent, last_key, running, quizVars, food_loop>>
  \/ \E p \in Drawable(IF state = "EDUCATION_GAME_PLAYING"
                          /\ Matches(current_education_game,
                                     edu[current_education_game].problem)
                       THEN current_education_game ELSE "None") :
       /\ state = "EDUCATION_GAME_PLAYING"
       /\ edu[current_education_game].score < SOLVED_POINTS * MaxSolved
       /\ KeyOfEducationGame("RETURN", p)
       /\ UNCHANGED <<intent, last_key, running, quizVars, food_loop>>
  \/ /\ state = "EDUCATION_GAME_PLAYING"
     /\ KeyOfEducationGame("BACKSPACE", NoProblem)
     /\ UNCHANGED <<intent, last_key, running, quizVars, food_loop>>
  \/ KeyR /\ MiniAfterR /\ UNCHANGED <<intent, last_key, running, quizVars, food_loop>>
  \/ KeyB /\ UNCHANGED miniVars /\ NotRecorded
  \/ KeyEscape /\ UNCHANGED miniVars /\ NotRecorded

InitMini == Init /\ food_pos = FoodAhead

SpecMini == InitMini /\ [][NextMini]_vars

----------------------------------------------------------------------------
(* generate_food, draw by draw. *)

\* the cells of the grid along a path that turns at the end of every row
Serpentine ==
  [k \in 1 .. GRID_WIDTH * GRID_HEIGHT |->
     LET y == (k - 1) \div GRID_WIDTH
         x == (k - 1) % GRID_WIDTH
     IN  <<IF y % 2 = 0 THEN x ELSE GRID_WIDTH - 1 - x, y>>]

\* the snakes that lie along that path, head first
FoodSnakes ==
  {[k \in 1 .. (j - i + 1) |-> Serpentine[j + 1 - k]] :
     i \in 1 .. GRID_WIDTH * GRID_HEIGHT, j \in 1 .. GRID_WIDTH * GRID_HEIGHT}
    \ {<<>>}

(* a loop that also rejects the cell the food is on *)
FoodAcceptedIfNew(c, s) == c \notin CellsOf(s) /\ c # food_pos

\* if (x, y) not in self.snake
FoodAccepted(c, s) == c \notin CellsOf(s)

\* the call of generate_food enters its while loop
EnterFoodLoop ==
  /\ food_loop # "drawing"
  /\ food_loop' = "drawing"
  /\ UNCHANGED <<state, boardVars, scoreVars, current_question,
                 last_move_time, menuVars, current_time, miniVars, quizVars>>

\* one turn of the loop: c is the cell (x, y) that the two randint calls draw
DrawFood(c) ==
  /\ food_loop = "drawing"
  /\ IF FoodAccepted(c, snake)
     THEN food_pos' = c /\ food_loop' = "returned"
     ELSE UNCHANGED <<food_pos, food_loop>>
  /\ UNCHANGED <<state, snake, direction, next_direction, scoreVars,
                 current_question, last_move_time, menuVars, current_time,
                 miniVars, quizVars>>

NextFood ==
  \/ EnterFoodLoop /\ UNCHANGED <<intent, last_key, running>>
  \/ \E c \in Cells : DrawFood(c) /\ UNCHANGED <<intent, last_key, running>>

(* a round with the snake anywhere along the path, the food on a free cell *)
(* or, just eaten, under the head; generate_food reads nothing else        *)
InitFood ==
  /\ state = "PLAYING"
  /\ snake \in FoodSnakes
  /\ direction = "RIGHT"
  /\ next_direction = "RIGHT"
  /\ food_pos \in GenerateFood(snake) \cup {snake[1]}
  /\ current_question = NoQuestion
  /\ score = 0
  /\ level = 1
  /\ questions_correct = 0
  /\ questions_total = 0
  /\ streak = 0
  /\ best_streak = 0
  /\ last_move_time = 0
  /\ move_delay = INITIAL_MOVE_DELAY
  /\ language = "english"
  /\ selected_category = "None"
  /\ current_education_game = "None"
  /\ current_python_game = "None"
  /\ current_time = 0
  /\ running = TRUE
  /\ intent = "NONE"
  /\ last_key = "NONE"
  /\ selected_subject = "UNSET"
  /\ selected_level = 0
  /\ gen = NoCall
  /\ edu = NoGames
  /\ arcade = NoGames
  /\ food_loop = "idle"

SpecFood == InitFood /\ [][NextFood]_vars

(* fair random draws: the loop is not starved of a draw that it accepts *)
SpecFoodFair ==
  /\ SpecFood
  /\ WF_vars(\E c \in Cells :
               DrawFood(c) /\ UNCHANGED <<intent, last_key, running>>)

----------------------------------------------------------------------------
(* The board left to itself. *)

\* the player of these sessions presses a key only while this holds
Steering == last_move_time < SteerUntil

\* the last clock reading that these sessions follow: time for one moving
\* tick more than the longest line of the grid has cells
DriftEnd == SteerUntil + INITIAL_MOVE_DELAY * Max(GRID_WIDTH, GRID_HEIGHT)

\* an iteration of run in PLAYING whose clock reading has passed the throttle
MovingFrame ==
  /\ state = "PLAYING"
  /\ \E e \in Elapsed :
       /\ e >= move_delay
       /\ last_move_time + e <= DriftEnd
       /\ Frame(last_move_time + e)
  /\ NotRecorded

(* a round that the player steers for a while and then leaves to itself: *)
(* the keys of the board while steering, and the frames of run           *)
NextDrift ==
  \/ KeySpace /\ NotRecorded
  \/ \E d \in Direction : Steering /\ KeyDirection(d) /\ NotRecorded
  \/ Steering /\ KeyP /\ NotRecorded
  \/ Steering /\ KeyR /\ NotRecorded
  \/ \E e \in Elapsed :
       /\ last_move_time + e <= DriftEnd
       /\ Frame(last_move_time + e)
       /\ NotRecorded

SpecDrift == Init /\ [][NextDrift]_vars

(* run calls update_snake in every iteration in PLAYING and the clock of *)
(* pygame advances between iterations, so a reading that has passed the  *)
(* throttle comes                                                        *)
SpecDriftFair == SpecDrift /\ WF_vars(MovingFrame)

----------------------------------------------------------------------------
(* Vocabulary of the properties *)

\* every cell of s lies inside the grid
InGrid(s) ==
  \A k \in 1 .. Len(s) :
    s[k][1] >= 0 /\ s[k][1] < GRID_WIDTH /\ s[k][2] >= 0 /\ s[k][2] < GRID_HEIGHT

\* no two cells of s are equal
NoTwoEqual(s) ==
  \A j, k \in 1 .. Len(s) : j # k => s[j] # s[k]

\* two cells of s are equal only inside the run of equal cells that ends s
OnlyTailCopies(s) ==
  \A j, k \in 1 .. Len(s) :
    (j < k /\ s[j] = s[k]) => \A m \in j .. Len(s) : s[m] = s[j]

\* a step that is update_snake called by a frame in PLAYING
TickStep ==
  /\ state = "PLAYING"
  /\ \E e \in Elapsed : Frame(last_move_time + e)

\* a step that is a call of start_game, from the menu or as a restart
StartStep ==
  \/ state = "MENU" /\ KeySpace
  \/ state = "GAME_OVER" /\ KeyR
  \/ CallRestartGame

\* a step that is answer_question giving a correct answer
CorrectAnswerStep == questions_correct' = questions_correct + 1

\* the direction opposite to d on the grid
Reverse(d) ==
  CASE d = "UP" -> "DOWN"
    [] d = "DOWN" -> "UP"
    [] d = "LEFT" -> "RIGHT"
    [] d = "RIGHT" -> "LEFT"

\* the modes in which the food lies on the board, not under the head
FoodOnBoard == {"MENU", "PLAYING", "PAUSED", "GAME_OVER"}

----------------------------------------------------------------------------
(* C1, as stated: in the state left by each tick every snake cell is      *)
(* inside the grid and no two cells of the snake list are equal.          *)
C1_TickLeavesDistinctCells ==
  [][TickStep => (InGrid(snake') /\ NoTwoEqual(snake'))]_vars

(* C1: in every reachable state every snake cell is inside the grid, and  *)
(* two cells of the snake list are equal only when they are copies of the *)
(* tail cell that grow_snake appended at the end of the list.             *)
C1_InGridAndOnlyTailCopies ==
  InGrid(snake) /\ OnlyTailCopies(snake)

\* a tick that ate food has left a snake that ends in two equal cells
C1_Witness ==
  /\ state = "CATEGORY_SELECT"
  /\ food_pos = snake[1]
  /\ Len(snake) >= 3
  /\ snake[Len(snake)] = snake[Len(snake) - 1]

(* C2, as stated: once food has been generated, food_pos differs from     *)
(* every cell of the snake in every reachable state of every mode.        *)
C2_FoodAlwaysDisjoint ==
  food_pos \notin CellsOf(snake)

(* C2: food_pos differs from every cell of the snake in MENU, PLAYING,    *)
(* PAUSED and GAME_OVER; food_pos is a snake cell only from the tick that *)
(* eats it until the next generate_food, and it is then the head.         *)
C2_FoodDisjointUntilEaten ==
  /\ state \in FoodOnBoard => food_pos \notin CellsOf(snake)
  /\ food_pos \in CellsOf(snake) => food_pos = snake[1]

\* play goes on, with fresh food, after food was eaten and answered for
C2_Witness ==
  /\ state = "PLAYING"
  /\ Len(snake) >= 3
  /\ questions_correct >= 1
  /\ snake[1] # snake[2]
  /\ food_pos \notin CellsOf(snake)

(* C3: right after every call of generate_food (construction, start_game, *)
(* restart_game, a correct answer) food_pos is a cell of the grid that is *)
(* not a cell of the snake of that moment.                                *)
C3_GenerateFoodFree ==
  [][(StartStep \/ CorrectAnswerStep)
       => (food_pos' \in Cells /\ food_pos' \notin CellsOf(snake'))]_vars

\* food was generated for a snake of several cells
C3_Witness ==
  /\ state = "PLAYING"
  /\ Len(snake) >= 4
  /\ snake[Len(snake)] = snake[Len(snake) - 1]
  /\ food_pos \in Cells
  /\ food_pos \notin CellsOf(snake)

(* C4: a tick whose clock reading is less than move_delay after the last  *)
(* move changes nothing of the session; a tick moves the snake only when  *)
(* the reading is at least move_delay after the last move, and it then    *)
(* records the reading as the time of the last move.                      *)
C4_ThrottledTickIsNoOp ==
  [][TickStep =>
       IF current_time' - last_move_time < move_delay
       THEN UNCHANGED <<snake, direction, next_direction, food_pos, state,
                        last_move_time, scoreVars, current_question>>
       ELSE last_move_time' = current_time' /\ direction' = next_direction]_vars

\* a tick came too early after a speed-up and left the board as it was
C4_Witness ==
  /\ state = "PLAYING"
  /\ move_delay < INITIAL_MOVE_DELAY
  /\ current_time > last_move_time
  /\ current_time - last_move_time < move_delay
  /\ last_move_time > 0

(* C5, as stated: when the last direction intent before a moving tick is  *)
(* the opposite of the heading h, the heading after that tick is still h; *)
(* when it is any other direction, that direction is the heading after    *)
(* the tick.                                                              *)
C5_OppositeIntentKeepsHeading ==
  [][(TickStep /\ last_move_time' # last_move_time /\ intent # "NONE")
       => direction' = IF intent = Reverse(direction) THEN direction
                       ELSE intent]_vars

(* C5: in PLAYING an intent opposite to the heading h is ignored, it      *)
(* leaves direction and next_direction as they were, and any other intent *)
(* becomes next_direction; a moving tick takes next_direction as the      *)
(* heading.  So after an opposite intent the next heading is the          *)
(* direction that was pending before it (h when no other intent was       *)
(* accepted since the last move), and a non-opposite intent that is the   *)
(* last one before a moving tick is the heading after it.                 *)
C5_OppositeIntentIgnored ==
  [][/\ \A d \in Direction :
          (state = "PLAYING" /\ KeyDirection(d) /\ intent' = d)
            => /\ direction' = direction
               /\ next_direction' = IF d = Reverse(direction)
                                    THEN next_direction ELSE d
     /\ (TickStep /\ last_move_time' # last_move_time)
          => /\ direction' = next_direction
             /\ (intent # "NONE" /\ intent # Reverse(direction))
                  => direction' = intent]_vars

\* an opposite intent arrived while a turn was pending
C5_Witness ==
  /\ state = "PLAYING"
  /\ direction = "RIGHT"
  /\ next_direction = "UP"
  /\ intent = "LEFT"

\* the smaller of two integers
Min(a, b) == IF a <= b THEN a ELSE b

\* a step that is answer_question counting an answer
CountedAnswerStep == questions_total' = questions_total + 1

\* a step that is answer_question(i) for an option i that is not the answer
WrongAnswerStep ==
  /\ current_question # NoQuestion
  /\ \E i \in 0 .. NUM_OPTIONS - 1 :
       /\ current_question.options[i + 1] # current_question.answer
       /\ AnswerQuestion(i)

(* C6, as stated: a correct answer given at streak s increases the score  *)
(* by exactly 10 + min(s * 2, 20).                                        *)
C6_ScoringLaw ==
  [][CorrectAnswerStep => score' = score + 10 + Min(streak * 2, 20)]_vars

(* C7, as stated: five consecutive correct answers from streak 0, score 0 *)
(* and correct count 0 leave the score at exactly 70.                     *)
C7_FiveCorrectScore70 ==
  (questions_correct = 5 /\ streak = 5) => score = 70

(* C8: an answer raises level by 1 and sets move_delay to                 *)
(* max(100, move_delay - 10) exactly when it is correct and the count of  *)
(* correct answers after it is a multiple of 5; every other answer leaves *)
(* level and move_delay as they were.  Five correct answers from          *)
(* move_delay 200 and level 1 give move_delay 190 and level 2.            *)
C8_LevelUpEveryFifth ==
  [][CountedAnswerStep =>
       /\ IF CorrectAnswerStep /\ questions_correct' % 5 = 0
          THEN /\ level' = level + 1
               /\ move_delay' = IF move_delay - 10 >= 100
                                THEN move_delay - 10 ELSE 100
          ELSE level' = level /\ move_delay' = move_delay
       /\ (CorrectAnswerStep /\ questions_correct = 4
             /\ move_delay = 200 /\ level = 1)
            => (move_delay' = 190 /\ level' = 2)]_vars

\* the tenth correct answer of a round raised the level at the floor
C8_Witness ==
  /\ questions_correct = 10
  /\ level = 3
  /\ move_delay = 100
  /\ questions_total = 11

(* C9: in every reachable state 100 <= move_delay <= 200, and no step,    *)
(* answer or restart, increases move_delay.                               *)
C9_MoveDelayBounded ==
  /\ [](100 <= move_delay /\ move_delay <= 200)
  /\ [][move_delay' <= move_delay]_vars

\* a round was restarted with move_delay at its floor
C9_Witness ==
  /\ move_delay = 100
  /\ state = "PLAYING"
  /\ level = 1
  /\ questions_total = 0
  /\ best_streak >= 1
  /\ snake = <<Center>>

(* C10: an incorrect answer sets streak to 0 and leaves score, level,     *)
(* correct count, best streak, move_delay, snake and food_pos unchanged.  *)
C10_WrongAnswerFrame ==
  [][WrongAnswerStep =>
       /\ streak' = 0
       /\ UNCHANGED <<score, level, questions_correct, best_streak,
                      move_delay, snake, food_pos>>]_vars

\* a wrong answer ended a streak and kept the score
C10_Witness ==
  /\ streak = 0
  /\ best_streak >= 3
  /\ questions_total = questions_correct + 1
  /\ score > 0
  /\ current_question = NoQuestion
  /\ Len(snake) = questions_correct + 1

----------------------------------------------------------------------------
\* a step that is answer_question(i) for a current question and an option
\* index i of its list
ValidAnswerStep ==
  /\ current_question # NoQuestion
  /\ \E i \in 0 .. NUM_OPTIONS - 1 : AnswerQuestion(i)

\* a step that is update_snake moving the snake, or ending the round
MovingTickStep == TickStep /\ last_move_time' # last_move_time

\* the cell the head moves to on a moving tick: head + heading delta
CellAhead == NewHead(snake, next_direction)

\* cell c is one of the cells of the snake list s, the tail included
OnSnake(c, s) == \E k \in 1 .. Len(s) : s[k] = c

(* C11, as stated: after an incorrect answer the same question remains    *)
(* the current question and the mode is unchanged.                        *)
C11_WrongAnswerKeepsQuestion ==
  [][WrongAnswerStep =>
       (current_question' = current_question /\ state' = state)]_vars

(* C12: every answer given for a current question with an option index of *)
(* its list increases questions_total by exactly 1, correct or not, and   *)
(* questions_correct <= questions_total in every reachable state.         *)
C12_EveryAnswerCounted ==
  /\ [][ValidAnswerStep => questions_total' = questions_total + 1]_vars
  /\ [](questions_correct <= questions_total)

\* a wrong answer and a correct answer have both been counted
C12_Witness ==
  /\ questions_total = 2
  /\ questions_correct = 1
  /\ streak = 1

(* C13: start_game, from the menu or as the restart after GAME_OVER,      *)
(* leaves mode PLAYING, score 0, level 1, streak 0, both counts 0, the    *)
(* snake on the single cell (GRID_WIDTH div 2, GRID_HEIGHT div 2),        *)
(* direction and next_direction RIGHT and the food on a free cell, so a   *)
(* restart yields the values of a start.                                  *)
C13_StartAndRestartDefaults ==
  [][StartStep =>
       /\ state' = "PLAYING"
       /\ score' = 0
       /\ level' = 1
       /\ streak' = 0
       /\ questions_correct' = 0
       /\ questions_total' = 0
       /\ snake' = << <<GRID_WIDTH \div 2, GRID_HEIGHT \div 2>> >>
       /\ direction' = "RIGHT"
       /\ next_direction' = "RIGHT"
       /\ InGrid(<<food_pos'>>)
       /\ ~OnSnake(food_pos', snake')]_vars

\* a round in which an answer scored was lost and restarted
C13_Witness ==
  /\ state = "PLAYING"
  /\ score = 0
  /\ streak = 0
  /\ questions_total = 0
  /\ best_streak >= 1
  /\ last_move_time > 0
  /\ snake = << <<GRID_WIDTH \div 2, GRID_HEIGHT \div 2>> >>
  /\ direction = "RIGHT"

(* C14, as stated: after start_game or restart_game every field has its   *)
(* process-start default, including best_streak = 0, move_delay = 200 and *)
(* last_move_time = 0.                                                    *)
C14_FullSessionReset ==
  [][StartStep =>
       (best_streak' = 0 /\ move_delay' = 200 /\ last_move_time' = 0)]_vars

(* C15: a moving tick in PLAYING whose new head is out of bounds, or      *)
(* equals any cell of the snake list, the tail cell included, sets the    *)
(* mode to GAME_OVER and leaves the snake list and food_pos as they were. *)
C15_CollisionEndsRound ==
  [][(MovingTickStep /\ (~InGrid(<<CellAhead>>) \/ OnSnake(CellAhead, snake)))
       => (state' = "GAME_OVER" /\ snake' = snake /\ food_pos' = food_pos)]_vars

\* the round ended with the head about to enter the tail cell
C15_Witness ==
  /\ state = "GAME_OVER"
  /\ Len(snake) >= 4
  /\ NewHead(snake, direction) = snake[Len(snake)]

(* C16: a moving tick in PLAYING whose new head is inside the grid, off   *)
(* the snake and equal to food_pos sets the mode to CATEGORY_SELECT in    *)
(* that tick, keeps the tail, draws no question and changes no score.     *)
C16_EatingTick ==
  [][(MovingTickStep /\ InGrid(<<CellAhead>>) /\ ~OnSnake(CellAhead, snake)
        /\ CellAhead = food_pos)
       => /\ state' = "CATEGORY_SELECT"
          /\ snake' = <<CellAhead>> \o snake
          /\ UNCHANGED <<current_question, score, level, streak, best_streak,
                         questions_correct, questions_total>>]_vars

\* the first food of a round was eaten: two cells, nothing scored
C16_Witness ==
  /\ state = "CATEGORY_SELECT"
  /\ Len(snake) = 2
  /\ snake[1] = food_pos
  /\ snake[2] = <<GRID_WIDTH \div 2, GRID_HEIGHT \div 2>>
  /\ score = 0
  /\ current_question = NoQuestion

----------------------------------------------------------------------------
\* a step that is start_game called by handle_input: start or restart
KeyStartStep ==
  \/ state = "MENU" /\ KeySpace
  \/ state = "GAME_OVER" /\ KeyR

\* the modes in which the board is not ticked
NotTicked ==
  {"MENU", "PAUSED", "CATEGORY_SELECT", "EDUCATION_GAME_SELECT",
   "EDUCATION_GAME_PLAYING", "PYTHON_GAME_SELECT", "PYTHON_GAME_PLAYING",
   "GAME_OVER"}

\* the changes of mode that the session allows
LegalEdges ==
  { <<"MENU", "PLAYING">>,
    <<"PLAYING", "PAUSED">>,
    <<"PAUSED", "PLAYING">>,
    <<"PLAYING", "CATEGORY_SELECT">>,
    <<"PLAYING", "GAME_OVER">>,
    <<"GAME_OVER", "PLAYING">>,
    <<"CATEGORY_SELECT", "EDUCATION_GAME_SELECT">>,
    <<"CATEGORY_SELECT", "PYTHON_GAME_SELECT">>,
    <<"EDUCATION_GAME_SELECT", "EDUCATION_GAME_PLAYING">>,
    <<"PYTHON_GAME_SELECT", "PYTHON_GAME_PLAYING">>,
    <<"EDUCATION_GAME_SELECT", "CATEGORY_SELECT">>,
    <<"PYTHON_GAME_SELECT", "CATEGORY_SELECT">>,
    <<"EDUCATION_GAME_PLAYING", "EDUCATION_GAME_SELECT">>,
    <<"PYTHON_GAME_PLAYING", "PYTHON_GAME_SELECT">> }

\* what a pause keeps: the board, the score and the counts
KeptByPause ==
  <<snake, direction, next_direction, food_pos, score, level, streak,
    questions_correct, questions_total>>

\* every field of the session
sessionVars ==
  <<state, snake, direction, next_direction, food_pos, current_question,
    score, level, questions_correct, questions_total, streak, best_streak,
    last_move_time, move_delay, language, selected_category,
    current_education_game, current_python_game>>

\* the names of the keys
KeyNames ==
  {"SPACE", "L", "P", "R", "Q", "B", "ESCAPE"} \cup Direction
    \cup {DigitName[n] : n \in DigitKeys}

\* the keys a mode accepts; in a mini-game mode the other keys belong to
\* the mini-game
Accepts(st) ==
  CASE st = "MENU" -> {"SPACE", "L"}
    [] st = "PLAYING" -> Direction \cup {"P"}
    [] st = "CATEGORY_SELECT" -> {"1", "2"}
    [] st \in {"EDUCATION_GAME_SELECT", "PYTHON_GAME_SELECT"} ->
         {"1", "2", "3", "4", "5", "B"}
    [] st = "PAUSED" -> {"P"}
    [] st = "GAME_OVER" -> {"R", "Q"}
    [] st \in {"EDUCATION_GAME_PLAYING", "PYTHON_GAME_PLAYING"} -> {"ESCAPE"}

\* a step that is handle_input handling a KEYDOWN event of the key named k
KeyStep(k) ==
  CASE k = "SPACE" -> KeySpace
    [] k = "L" -> KeyL
    [] k = "P" -> KeyP
    [] k = "R" -> KeyR
    [] k = "B" -> KeyB
    [] k = "ESCAPE" -> KeyEscape
    [] k = "Q" -> \E e \in Elapsed : KeyQ(last_move_time + e)
    [] k \in Direction -> KeyDirection(k)
    [] OTHER -> \E n \in DigitKeys : DigitName[n] = k /\ KeyDigit(n)

(* C17: while the mode is MENU, PAUSED, CATEGORY_SELECT, a selection      *)
(* screen, a mini-game or GAME_OVER, no frame and no key other than the   *)
(* start in MENU and the restart in GAME_OVER changes snake, direction or *)
(* food_pos.                                                              *)
C17_BoardTickedOnlyInPlaying ==
  [][(state \in NotTicked /\ ~KeyStartStep)
       => UNCHANGED <<snake, direction, food_pos>>]_vars

\* a frame of a paused round came after the move delay had elapsed
C17_Witness ==
  /\ state = "PAUSED"
  /\ last_move_time > 0
  /\ current_time - last_move_time >= 200
  /\ last_key = "P"

(* C18: the initial mode is MENU, and every change of mode made by        *)
(* handle_input and the run loop is one of the edges start, pause,        *)
(* resume, food, collision, restart, the two category choices, the two    *)
(* game starts, the two ways back and the two escapes.                    *)
C18_TransitionLegality ==
  /\ state = "MENU"
  /\ [][state' # state => <<state, state'>> \in LegalEdges]_vars

\* both mini-game modes were entered and left by escape
C18_Witness ==
  /\ state = "PYTHON_GAME_SELECT"
  /\ last_key = "ESCAPE"
  /\ selected_category = "python"
  /\ current_python_game = "ball_run"
  /\ current_education_game = "word_master"

(* C19: K_p in PLAYING gives PAUSED and K_p in PAUSED gives PLAYING, and  *)
(* neither these two steps nor any frame or key handled in PAUSED changes *)
(* snake, direction, next_direction, food_pos, score, level, streak or    *)
(* the counts, so after the resume they are as at the pause.              *)
C19_PauseResumeRoundTrip ==
  /\ [][(state = "PLAYING" /\ KeyP)
          => (state' = "PAUSED" /\ UNCHANGED KeptByPause)]_vars
  /\ [][state = "PAUSED"
          => /\ KeyP => state' = "PLAYING"
             /\ state' \in {"PAUSED", "PLAYING"}
             /\ UNCHANGED KeptByPause]_vars

\* a round was resumed after a frame had passed while it was paused
C19_Witness ==
  /\ state = "PLAYING"
  /\ last_key = "P"
  /\ last_move_time > 0
  /\ current_time - last_move_time >= 200
  /\ next_direction # direction

----------------------------------------------------------------------------
\* a step that is answer_question called with no current question, or with
\* an option index that names none of the options 0 .. 3
InvalidAnswerStep ==
  \/ current_question = NoQuestion /\ \E i \in OptionIndexes : AnswerQuestion(i)
  \/ \E i \in OptionIndexes \ (0 .. 3) : AnswerQuestion(i)

(* C21, as stated: answer_question called with no current question, or   *)
(* with an option index outside 0 .. 3, too large or negative, leaves the *)
(* entire state unchanged.                                                *)
C21_InvalidAnswerIgnored ==
  [][InvalidAnswerStep => UNCHANGED sessionVars]_vars

----------------------------------------------------------------------------
\* the options of the Question that gen holds, as a set
OptionSet == {gen.options[k] : k \in 1 .. Len(gen.options)}

\* generate_math_question has returned a Question
MathReturned == gen.call = "returned" /\ gen.subject = "math"

(* C22: for every difficulty and every draw, generate_math_question      *)
(* returns a Question whose options list holds exactly 4 pairwise        *)
(* distinct non-negative integers, one of which equals the answer; and   *)
(* under fair draws every call that has entered its loop returns.        *)
C22_MathOptions ==
  /\ [](MathReturned =>
          /\ Len(gen.options) = 4
          /\ Cardinality(OptionSet) = 4
          /\ \A o \in OptionSet : o \in Nat
          /\ gen.answer \in OptionSet)
  /\ (gen.call = "options") ~> (gen.call = "returned")

\* a question with answer 0 was returned with its options shuffled
C22_Witness ==
  /\ MathReturned
  /\ gen.answer = 0
  /\ gen.options[1] # 0
  /\ gen.question.op = "-"

----------------------------------------------------------------------------
\* the exact value of an arithmetic prompt, read back from its text
PromptValue(q) ==
  CASE q.op = "+" -> q.left + q.right
    [] q.op = "-" -> q.left - q.right
    [] q.op = "*" -> q.left * q.right
    [] q.op = "/" -> CHOOSE v \in 0 .. q.left : v * q.right = q.left
    [] OTHER -> 0 - 1

\* generate_math_question has drawn the question of a call at difficulty d
MathDrawn == gen.call \in {"options", "returned"} /\ gen.subject = "math"

(* C23: for difficulty <= 6 the answer of generate_math_question is the  *)
(* exact, non-negative value of the prompt: at difficulty <= 3 a sum a + b *)
(* or a difference larger - smaller of operands of the basic range, at    *)
(* difficulty 4 .. 6 a product a * b or a quotient (a * b) / b with       *)
(* answer a, of operands of the intermediate range.                       *)
C23_AnswerIsPromptValue ==
  MathDrawn /\ gen.difficulty <= INTERMEDIATE_UP_TO =>
    /\ gen.answer >= 0
    /\ gen.answer = PromptValue(gen.question)
    /\ gen.difficulty <= BASIC_UP_TO =>
         /\ gen.question.op \in {"+", "-"}
         /\ gen.question.op = "+" =>
              /\ gen.question.left \in 1 .. MaxOperand
              /\ gen.question.right \in 1 .. MaxOperand
         /\ gen.question.op = "-" =>
              /\ gen.question.right \in 1 .. MaxOperand
              /\ gen.question.left \in gen.question.right .. MaxOperand
    /\ gen.difficulty > BASIC_UP_TO =>
         /\ gen.question.op \in {"*", "/"}
         /\ gen.question.right \in 2 .. MaxFactor
         /\ gen.question.op = "*" => gen.question.left \in 2 .. MaxFactor
         /\ gen.question.op = "/" =>
              /\ gen.answer \in 2 .. MaxFactor
              /\ gen.question.left = gen.answer * gen.question.right

\* a difference 2 - 1 was returned with answer 1: drawn as 2, 1 or as 1, 2
C23_Witness ==
  /\ MathReturned
  /\ gen.difficulty <= BASIC_UP_TO
  /\ gen.question = Prompt("-", 2, 1)
  /\ gen.answer = 1

(* C24, as stated: for difficulty > 6 the prompt is the square of an n in *)
(* the base range or the square root of a perfect square p, and the       *)
(* answer is n * n for the prompt of n squared, and satisfies             *)
(* answer * answer = p for the prompt of the root of p.                   *)
C24_AdvancedAnswerMatches ==
  MathDrawn /\ gen.difficulty > INTERMEDIATE_UP_TO =>
    /\ gen.question.op \in {"^2", "sqrt"}
    /\ gen.question.op = "^2" =>
         /\ gen.question.left \in 1 .. MaxBase
         /\ gen.answer = gen.question.left * gen.question.left
    /\ gen.question.op = "sqrt" =>
         /\ gen.question.left \in PerfectSquares
         /\ gen.answer * gen.answer = gen.question.left

----------------------------------------------------------------------------
\* the Question that a generator returned has four options, the answer among them
ValidQuestion ==
  IF gen.subject = "math"
  THEN /\ Len(gen.options) = NUM_OPTIONS
       /\ gen.answer \in OptionSet
  ELSE /\ Len(gen.text_options) = NUM_OPTIONS
       /\ \E k \in 1 .. NUM_OPTIONS : gen.text_options[k] = gen.text_answer

(* C25, as stated: question generation never fails: for each of the five *)
(* subjects, for the random selector and for an unknown or unset         *)
(* selected subject, which yields a math question at the same            *)
(* difficulty, the generators return a Question with exactly 4 options    *)
(* of which one equals the answer, and never raise an error.              *)
C25_GenerationNeverFails ==
  /\ gen.call # "raised"
  /\ gen.call = "returned" => ValidQuestion
  /\ gen.call \in {"options", "returned"} /\ selected_subject # "UNSET" =>
       /\ gen.difficulty = selected_level
       /\ gen.subject = IF selected_subject \in Subjects
                        THEN selected_subject ELSE "math"

----------------------------------------------------------------------------
\* the mode is one of the two in which a mini-game is played
InSubGame == state \in {"EDUCATION_GAME_PLAYING", "PYTHON_GAME_PLAYING"}

\* a step in which the current education game scores a solved problem
SolvedStep ==
  /\ state = "EDUCATION_GAME_PLAYING"
  /\ edu'[current_education_game].score
       = edu[current_education_game].score + SOLVED_POINTS

(* C26: no key and no frame handled in EDUCATION_GAME_PLAYING or           *)
(* PYTHON_GAME_PLAYING changes the session's score, level, streak,         *)
(* best_streak, question counts, move_delay, snake or food_pos; and a      *)
(* correct answer in an education game changes only the score and the      *)
(* problem of that game.                                                   *)
C26_SubGameIsolation ==
  [][InSubGame =>
       /\ UNCHANGED <<score, level, streak, best_streak, questions_correct,
                      questions_total, move_delay, snake, food_pos>>
       /\ SolvedStep =>
            /\ UNCHANGED <<sessionVars, arcade>>
            /\ \A h \in DOMAIN edu \ {current_education_game} :
                 edu'[h] = edu[h]
            /\ DOMAIN edu' = DOMAIN edu]_vars

\* frames of Zombie Dash have counted, and a zombie has reached the player
C26_Witness ==
  /\ state = "PYTHON_GAME_PLAYING"
  /\ current_python_game = "zombie_dash"
  /\ arcade["zombie_dash"].score = 2
  /\ arcade["zombie_dash"].health < 100
  /\ score = 0
  /\ Len(snake) = 2

\* a step that is K_RETURN handled in the education game g
EnterStep(g) ==
  /\ state = "EDUCATION_GAME_PLAYING"
  /\ current_education_game = g
  /\ edu' # edu
  /\ \E p \in FreshProblems(g) : KeyOfEducationGame("RETURN", p)

(* C27: in each of the five education games, ENTER with a non-empty typed *)
(* answer that matches (as an integer in Math Wizard, as text whatever    *)
(* the case in the others) adds exactly 10 to the score of that game and  *)
(* replaces the problem by a fresh one with empty input; ENTER with a     *)
(* non-empty answer that does not match clears the typed input and leaves *)
(* score and problem as they are; ENTER with empty input changes nothing. *)
C27_EnterChecksAnswer ==
  /\ [][\A g \in Names(EducationGames) :
          EnterStep(g) =>
            /\ edu[g].problem.user_answer # <<>>
            /\ IF Matches(g, edu[g].problem)
               THEN /\ edu'[g].score = edu[g].score + 10
                    /\ edu'[g].problem \in FreshProblems(g)
                    /\ edu'[g].problem.user_answer = <<>>
               ELSE /\ edu'[g].score = edu[g].score
                    /\ edu'[g].problem =
                         [edu[g].problem EXCEPT !.user_answer = <<>>]]_vars
  /\ [](state = "EDUCATION_GAME_PLAYING"
          /\ edu[current_education_game].problem.user_answer = <<>>
        => \A p \in FreshProblems(current_education_game) :
             EducationAfterKey(edu[current_education_game],
                               current_education_game, "RETURN", p)
               = edu[current_education_game])

\* Science Lab after one solved experiment: a new one, nothing typed yet
C27_Witness ==
  /\ state = "EDUCATION_GAME_PLAYING"
  /\ current_education_game = "science_lab"
  /\ edu["science_lab"].score = 10
  /\ edu["science_lab"].problem.user_answer = <<>>

\* a text of digits and '-' that is not an integer: no digit, or a '-' inside
NotAnInteger(s) ==
  /\ s # <<>>
  /\ \A k \in 1 .. Len(s) : IsDigit(s[k]) \/ s[k] = "-"
  /\ \/ \A k \in 1 .. Len(s) : s[k] = "-"
     \/ \E k \in 2 .. Len(s) : s[k] = "-"

(* C28: in Math Wizard, a typed input of digits and '-' that is not a     *)
(* valid integer, such as '-', '1-2' or '--5', is treated on ENTER as an  *)
(* incorrect answer: the input is cleared, math_score and the problem are *)
(* unchanged and the mode stays EDUCATION_GAME_PLAYING.                   *)
C28_InvalidIntegerIsWrong ==
  [][EnterStep("math_wizard")
       /\ NotAnInteger(edu["math_wizard"].problem.user_answer)
     => /\ edu'["math_wizard"] =
             [edu["math_wizard"] EXCEPT !.problem.user_answer = <<>>]
        /\ state' = "EDUCATION_GAME_PLAYING"
        /\ UNCHANGED sessionVars]_vars

\* '1-2' is typed for a problem whose answer is 0, after a solved problem
C28_Witness ==
  /\ state = "EDUCATION_GAME_PLAYING"
  /\ current_education_game = "math_wizard"
  /\ edu["math_wizard"].problem.user_answer = <<"1", "-", "2">>
  /\ edu["math_wizard"].problem.answer = 0
  /\ edu["math_wizard"].score = 10

(* C29: choosing a sub-game on a selection screen sets the matching       *)
(* PLAYING mode, records the game in current_education_game or            *)
(* current_python_game, and re-initialises its private state: score 0,    *)
(* for a python game its board and health as new, for an education game a *)
(* fresh unsolved problem with empty input, whatever the game held when   *)
(* it was last left with escape.                                          *)
C29_ConstructOnSelect ==
  [][\A n \in 1 .. 5 :
       /\ state = "EDUCATION_GAME_SELECT" /\ KeyDigit(n) =>
            /\ state' = "EDUCATION_GAME_PLAYING"
            /\ current_education_game' = EducationGames[n]
            /\ EducationGames[n] \in DOMAIN edu'
            /\ edu'[EducationGames[n]].score = 0
            /\ edu'[EducationGames[n]].problem
                 \in FreshProblems(EducationGames[n])
            /\ edu'[EducationGames[n]].problem.user_answer = <<>>
            /\ ~edu'[EducationGames[n]].problem.solved
       /\ state = "PYTHON_GAME_SELECT" /\ KeyDigit(n) =>
            /\ state' = "PYTHON_GAME_PLAYING"
            /\ current_python_game' = PythonGames[n]
            /\ PythonGames[n] \in DOMAIN arcade'
            /\ arcade'[PythonGames[n]].score = 0
            /\ arcade'[PythonGames[n]].board = BlankBoard
            /\ ~arcade'[PythonGames[n]].game_over
            /\ PythonGames[n] = "zombie_dash" =>
                 arcade'[PythonGames[n]].health = 100]_vars

\* a game left with escape holding points and typed text, about to be chosen
C29_Witness ==
  /\ state = "EDUCATION_GAME_SELECT"
  /\ current_education_game = "word_master"
  /\ edu["word_master"].score = 20
  /\ edu["word_master"].problem.user_answer # <<>>

----------------------------------------------------------------------------
\* at least one cell of the grid is not occupied by the snake
HasFreeCell == \E c \in Cells : c \notin CellsOf(snake)

(* C30: generate_food always terminates: from every snake that leaves at *)
(* least one cell of the grid free, under fair random draws the retry     *)
(* loop eventually picks a free cell and returns.                         *)
C30_GenerateFoodTerminates ==
  (food_loop = "drawing" /\ HasFreeCell)
    ~> (food_loop = "returned" /\ food_pos \notin CellsOf(snake))

\* the loop has returned the only free cell, on which the food already was
C30_Witness ==
  /\ food_loop = "returned"
  /\ Len(snake) = GRID_WIDTH * GRID_HEIGHT - 1
  /\ food_pos \notin CellsOf(snake)

----------------------------------------------------------------------------
\* a step that is update_snake moving the head onto the food
EatingTickStep ==
  /\ MovingTickStep
  /\ InGrid(<<CellAhead>>)
  /\ ~OnSnake(CellAhead, snake)
  /\ CellAhead = food_pos

(* C31, as stated: between two resets the length of the snake list is 1   *)
(* plus the number of grow_snake calls, one per correct answer, and no    *)
(* tick, the tick on which food is eaten included, changes the length.    *)
C31_OnlyGrowLengthens ==
  /\ [](Len(snake) = 1 + questions_correct)
  /\ [][TickStep => Len(snake') = Len(snake)]_vars

(* C31: the length of the snake list changes only in three ways: a reset  *)
(* sets it to 1, grow_snake adds 1 on each correct answer, and the tick   *)
(* on which food is eaten adds 1 because it keeps the tail; every other   *)
(* tick and every other step leaves the length as it was, so the length   *)
(* is never less than 1 plus the number of grow_snake calls since the     *)
(* reset.                                                                 *)
C31_LengthChanges ==
  /\ [][IF Len(snake') = Len(snake)
        THEN /\ ~CorrectAnswerStep
             /\ ~(last_move_time' # last_move_time /\ EatingTickStep)
             /\ Len(snake) = 1 \/ ~StartStep
        ELSE \/ Len(snake') = 1 /\ StartStep
             \/ /\ Len(snake') = Len(snake) + 1
                /\ CorrectAnswerStep \/ EatingTickStep]_vars
  /\ [](Len(snake) >= 1 + questions_correct)

\* food was eaten twice and answered for once: four cells, one grow_snake
C31_Witness ==
  /\ state = "CATEGORY_SELECT"
  /\ questions_correct = 1
  /\ Len(snake) = 4
  /\ snake[1] = food_pos

----------------------------------------------------------------------------
\* a step that is update_snake moving the head onto a free cell without food
PlainMoveStep ==
  /\ MovingTickStep
  /\ InGrid(<<CellAhead>>)
  /\ ~OnSnake(CellAhead, snake)
  /\ CellAhead # food_pos

\* the list s without its last cell
ButLast(s) == [k \in 1 .. Len(s) - 1 |-> s[k]]

(* C32: on a moving tick with no collision and a new head that is not     *)
(* food_pos, the new snake is the new head followed by the old snake      *)
(* without its last cell: the length is unchanged, the head is the old    *)
(* head plus the delta of the heading, and the mode stays PLAYING.  The   *)
(* snake [(10,10)] heading RIGHT with move_delay 200 and 250 ms elapsed   *)
(* becomes [(11,10)].                                                     *)
C32_PlainMove ==
  /\ [][(last_move_time' # last_move_time /\ PlainMoveStep) =>
          /\ snake' = <<CellAhead>> \o ButLast(snake)
          /\ Len(snake') = Len(snake)
          /\ snake'[1] = <<snake[1][1] + Delta(direction')[1],
                           snake[1][2] + Delta(direction')[2]>>
          /\ state' = "PLAYING"]_vars
  /\ LET s == << <<10, 10>> >>
         h == NewHead(s, "RIGHT")
     IN /\ ~(250 < 200)
        /\ h = <<11, 10>>
        /\ \A food \in Cells \ {h} : MovedSnake(s, h, food) = << <<11, 10>> >>

\* a snake of three cells has moved on and left its tail cell
C32_Witness ==
  /\ state = "PLAYING"
  /\ Len(snake) = 3
  /\ NoTwoEqual(snake)
  /\ snake[1] = <<snake[2][1] + Delta(direction)[1],
                  snake[2][2] + Delta(direction)[2]>>
  /\ snake[1] # food_pos

----------------------------------------------------------------------------
\* the absolute value of an integer
Abs(n) == IF n >= 0 THEN n ELSE 0 - n

\* the number of grid steps between two cells
GridSteps(a, b) == Abs(a[1] - b[1]) + Abs(a[2] - b[2])

(* C33, as stated: in every reachable state in which the snake has more   *)
(* than one segment, every two consecutive cells of the snake list are    *)
(* exactly one grid step apart, also after grow_snake.                    *)
C33_ConsecutiveOneStep ==
  \A k \in 1 .. Len(snake) - 1 : GridSteps(snake[k], snake[k + 1]) = 1

(* C33: in every reachable state two consecutive cells of the snake list  *)
(* are exactly one grid step apart, or they are equal, and they are equal *)
(* only inside the run of copies of the tail cell that ends the list,     *)
(* which grow_snake appended and the moving ticks have not yet removed.   *)
C33_OneStepOrTailCopy ==
  \A k \in 1 .. Len(snake) - 1 :
    \/ GridSteps(snake[k], snake[k + 1]) = 1
    \/ \A m \in k .. Len(snake) : snake[m] = snake[k]

\* a snake with two steps between its first cells and a tail copy at its end
C33_Witness ==
  /\ state = "PLAYING"
  /\ Len(snake) = 4
  /\ GridSteps(snake[1], snake[2]) = 1
  /\ GridSteps(snake[2], snake[3]) = 1
  /\ snake[3] = snake[4]

----------------------------------------------------------------------------
\* a step that is answer_question scoring a correct answer to the current
\* question
ScoredAnswerStep ==
  /\ current_question # NoQuestion
  /\ CorrectAnswerStep
  /\ score' > score

(* C34: a correct answer through answer_question, besides scoring,        *)
(* appends one copy of the current tail cell to the end of the snake,     *)
(* regenerates the food on a cell that the grown snake does not occupy,   *)
(* sets the mode to PLAYING and clears the current question, all within   *)
(* the same call.                                                         *)
C34_CorrectAnswerGrows ==
  [][ScoredAnswerStep =>
       /\ Len(snake') = Len(snake) + 1
       /\ \A k \in 1 .. Len(snake) : snake'[k] = snake[k]
       /\ snake'[Len(snake')] = snake[Len(snake)]
       /\ InGrid(<<food_pos'>>)
       /\ ~OnSnake(food_pos', snake')
       /\ state' = "PLAYING"
       /\ current_question' = NoQuestion]_vars

\* the first food was eaten and answered for: play goes on with three cells
C34_Witness ==
  /\ state = "PLAYING"
  /\ Len(snake) = 3
  /\ snake[2] = snake[3]
  /\ snake[1] # snake[2]
  /\ score = BASE_POINTS + 2
  /\ current_question = NoQuestion
  /\ food_pos # snake[1]

----------------------------------------------------------------------------
\* the modes of the category screen, the selection screens and the mini-games
SubGameModes ==
  {"CATEGORY_SELECT", "EDUCATION_GAME_SELECT", "EDUCATION_GAME_PLAYING",
   "PYTHON_GAME_SELECT", "PYTHON_GAME_PLAYING"}

(* C35: once the mode has become CATEGORY_SELECT, no key handled by       *)
(* handle_input and no frame of run brings it back to PLAYING, PAUSED,    *)
(* GAME_OVER or MENU: the mode stays CATEGORY_SELECT, a selection screen  *)
(* or a mini-game until the window-close event ends the process.          *)
C35_NoWayBackToBoard ==
  [][(state \in SubGameModes) => (state' \in SubGameModes)]_vars

\* the category screen again, after a mini-game was played and left
C35_Witness ==
  /\ state = "CATEGORY_SELECT"
  /\ last_key = "B"
  /\ current_education_game = "science_lab"
  /\ snake[1] = food_pos

----------------------------------------------------------------------------
(* C36: in a run driven only by handle_input and the run loop,            *)
(* answer_question is never invoked and current_question is never set,    *)
(* so in every reachable state score = 0, level = 1, streak = 0,          *)
(* best_streak = 0, questions_correct = questions_total = 0, move_delay   *)
(* = 200 and the snake has at most 2 cells.                               *)
C36_NothingScoredInRuns ==
  /\ current_question = NoQuestion
  /\ score = 0
  /\ level = 1
  /\ streak = 0
  /\ best_streak = 0
  /\ questions_correct = 0
  /\ questions_total = 0
  /\ move_delay = 200
  /\ Len(snake) <= 2

\* a mini-game was left by escape after the only food of the round was eaten
C36_Witness ==
  /\ state = "PYTHON_GAME_SELECT"
  /\ last_key = "ESCAPE"
  /\ current_python_game = "tic_tac_toe"
  /\ Len(snake) = 2
  /\ snake[1] = food_pos
  /\ score = 0

----------------------------------------------------------------------------
(* C37: in every reachable state next_direction is not the opposite of    *)
(* direction, for any number and order of direction intents between two   *)
(* moving ticks; hence the heading after a moving tick is never the       *)
(* opposite of the heading before it, and a snake of two or more cells    *)
(* never steps its head onto its own second segment.                      *)
C37_NeverReverses ==
  /\ [](next_direction # Reverse(direction))
  /\ [][MovingTickStep =>
          /\ direction' # Reverse(direction)
          /\ (Len(snake) >= 2 /\ snake' # snake) => snake'[1] # snake[2]]_vars

\* a snake of three cells that turned up has a turn to the left pending
C37_Witness ==
  /\ state = "PLAYING"
  /\ Len(snake) = 3
  /\ direction = "UP"
  /\ next_direction = "LEFT"
  /\ snake[1] = <<snake[2][1], snake[2][2] - 1>>
  /\ snake[2] # snake[3]

----------------------------------------------------------------------------
\* the moving ticks that a round left to itself can stay in PLAYING for
LongestLine == IF GRID_WIDTH >= GRID_HEIGHT THEN GRID_WIDTH ELSE GRID_HEIGHT

(* C38: if from some point in PLAYING no further direction or pause       *)
(* intent arrives and time keeps advancing, the mode eventually leaves    *)
(* PLAYING: within at most max(GRID_WIDTH, GRID_HEIGHT) moving ticks it   *)
(* becomes GAME_OVER or CATEGORY_SELECT.  The last intent arrives while   *)
(* the last move is less than SteerUntil old, and every moving tick comes *)
(* 200 ms after the last, so the round is still in PLAYING after at most  *)
(* max(GRID_WIDTH, GRID_HEIGHT) - 1 of them.                              *)
C38_DriftEndsRound ==
  /\ [](state = "PLAYING" =>
          last_move_time < SteerUntil + 200 * (LongestLine - 1))
  /\ (state = "PLAYING" /\ ~Steering)
       ~> (state \in {"GAME_OVER", "CATEGORY_SELECT"})

\* a round left to itself at the right edge, heading left, ended at the
\* left wall on the last tick that the bound allows
C38_Witness ==
  /\ state = "GAME_OVER"
  /\ direction = "LEFT"
  /\ snake[1][1] = 0
  /\ last_move_time >= SteerUntil + 200 * (LongestLine - 1)

----------------------------------------------------------------------------
\* tic-tac-toe has been started in this session
TttStarted == "tic_tac_toe" \in DOMAIN arcade

\* the attributes ttt_board, ttt_current_player, ttt_game_over, ttt_winner
Ttt == arcade["tic_tac_toe"]

\* a step that handle_ttt_input takes part in: a key in tic-tac-toe
InTtt ==
  /\ state = "PYTHON_GAME_PLAYING"
  /\ current_python_game = "tic_tac_toe"

\* the number of cells of board b that hold mark m
Marks(b, m) == Cardinality({k \in 1 .. 9 : b[k] = m})

(* C39: after any sequence of cell intents 1-9 and restarts, a cell is    *)
(* written only when it is empty and the game is not over, and with the   *)
(* mark of the current player; X moves first and the players alternate,   *)
(* so count(X) - count(O) is 0 or 1 on every reachable board, and while   *)
(* the game is not over ttt_current_player is X exactly when the counts   *)
(* are equal; a cell intent on an occupied cell changes nothing.          *)
C39_TttTurns ==
  /\ [](TttStarted =>
          /\ Marks(Ttt.board, "X") - Marks(Ttt.board, "O") \in {0, 1}
          /\ ~Ttt.game_over =>
               (Ttt.player = "X"
                  <=> Marks(Ttt.board, "X") = Marks(Ttt.board, "O"))
          /\ \A n \in 1 .. 9 :
               Ttt.board[n] # " " => TttAfterDigit(Ttt, n) = Ttt)
  /\ [][InTtt =>
          \A k \in 1 .. 9 :
            (Ttt'.board[k] # Ttt.board[k] /\ Ttt'.board[k] # " ") =>
              /\ Ttt.board[k] = " "
              /\ ~Ttt.game_over
              /\ Ttt'.board[k] = Ttt.player
              /\ \A j \in 1 .. 9 \ {k} : Ttt'.board[j] = Ttt.board[j]]_vars

\* five moves into a game: three X, two O, and O to move
C39_Witness ==
  /\ InTtt
  /\ ~Ttt.game_over
  /\ Marks(Ttt.board, "X") = 3
  /\ Marks(Ttt.board, "O") = 2
  /\ Ttt.player = "O"

----------------------------------------------------------------------------
\* board b holds a complete row, column or diagonal of mark m
LineOf(b, m) ==
  \E l \in TttLines : b[l[1]] = m /\ b[l[2]] = m /\ b[l[3]] = m

\* board b has no empty cell
FullBoard(b) == \A k \in 1 .. 9 : b[k] # " "

\* a step of handle_ttt_input that writes a mark
TttMoveStep ==
  /\ InTtt
  /\ \E k \in 1 .. 9 : Ttt'.board[k] # Ttt.board[k] /\ Ttt'.board[k] # " "

(* C40: ttt_game_over becomes true exactly on the move that completes a   *)
(* row, column or diagonal of one mark, with the player who just moved as *)
(* winner, also when that move fills the board, or that fills the board   *)
(* without a line, with winner Tie; once ttt_game_over is true the board  *)
(* and the winner do not change until the restart intent R, which is      *)
(* accepted only when the game is over and gives the empty board with X   *)
(* to move; no reachable board holds complete lines of both X and O.      *)
C40_TttEnding ==
  /\ [](TttStarted =>
          /\ Ttt.game_over <=>
               (LineOf(Ttt.board, "X") \/ LineOf(Ttt.board, "O")
                  \/ FullBoard(Ttt.board))
          /\ Ttt.winner = (IF LineOf(Ttt.board, "X") THEN "X"
                           ELSE IF LineOf(Ttt.board, "O") THEN "O"
                           ELSE IF FullBoard(Ttt.board) THEN "Tie"
                           ELSE "None")
          /\ ~(LineOf(Ttt.board, "X") /\ LineOf(Ttt.board, "O")))
  /\ [][InTtt =>
          /\ TttMoveStep =>
               /\ ~Ttt.game_over
               /\ Ttt'.game_over <=>
                    (LineOf(Ttt'.board, Ttt.player) \/ FullBoard(Ttt'.board))
               /\ Ttt'.winner = (IF LineOf(Ttt'.board, Ttt.player)
                                 THEN Ttt.player
                                 ELSE IF FullBoard(Ttt'.board) THEN "Tie"
                                 ELSE "None")
          /\ (Ttt.game_over /\ Ttt' # Ttt) =>
               /\ \A k \in 1 .. 9 : Ttt'.board[k] = " "
               /\ Ttt'.player = "X"
               /\ ~Ttt'.game_over
               /\ Ttt'.winner = "None"
          /\ ~Ttt.game_over =>
               \A k \in 1 .. 9 :
                 Ttt.board[k] # " " => Ttt'.board[k] = Ttt.board[k]]_vars

\* X has won with the move that filled the board
C40_Witness ==
  /\ InTtt
  /\ Ttt.game_over
  /\ FullBoard(Ttt.board)
  /\ Ttt.winner = "X"
  /\ LineOf(Ttt.board, "X")
====
